---- MODULE Spec2Model ----
(***************************************************************************)
(* State-machine model of the sift engine of emd/sift.py: extrema          *)
(* detection and padding, envelope interpolation, the single-IMF refiner   *)
(* get_next_imf, the classic sift driver, ensemble_sift with its worker    *)
(* _sift_with_noise, complete_ensemble_sift, mask_sift with                *)
(* get_mask_freqs and get_next_imf_mask, and the second-layer sifts        *)
(* sift_second_layer and mask_sift_second_layer.                           *)
(*                                                                         *)
(* Signals are vectors of integers.  Every sample of an input is a         *)
(* multiple of Unit = 2^MaxWork, so that the mean of two envelopes, which  *)
(* halves the granularity once per refinement iteration, stays exact for   *)
(* the MaxWork iterations a sift may execute.  The mean over the phases of *)
(* a mask takes its binary digits from the same budget; the means of the   *)
(* ensemble are held as sums and the number that divides them; those of    *)
(* complete_ensemble_sift, which are sifted again, are rounded to the      *)
(* integer grid.                                                           *)
(* Sample locations are 0-based as in the source; vectors are 1-based      *)
(* sequences, so the sample at location i is X[i+1].                       *)
(***************************************************************************)
EXTENDS Integers, Sequences, FiniteSets, TLC

\* ------------------------------------------------------------------ bounds
\* Number of samples of an input signal.
SigLen == 6
\* Total number of refinement iterations one sift, or one mask_sift, may
\* execute.
MaxWork == 4
\* Largest max_iters an input configuration names.
MaxItersTop == 2
\* Largest max_imfs an input configuration names.
MaxImfsTop == 2
\* Largest nensembles an ensemble is run with.
MaxEnsembles == 2
\* Number of passes through its loop complete_ensemble_sift may begin.
MaxLayers == 1
\* Largest pad_width get_padded_extrema and interp_envelope are called with.
MaxPad == 3
\* Largest number of first-layer columns the second-layer sifts are given.
MaxCols == 2

Unit == 2 ^ MaxWork
Samples == {0, Unit, 2 * Unit}

\* Python's None, and a present optional value.
None == <<>>
Some(v) == <<v>>

\* ------------------------------------------------------------ vector helpers
Abs(x) == IF x < 0 THEN -x ELSE x
Min2(a, b) == IF a < b THEN a ELSE b
Max2(a, b) == IF a < b THEN b ELSE a

RECURSIVE SeqSum(_)
SeqSum(s) == IF s = <<>> THEN 0 ELSE Head(s) + SeqSum(Tail(s))

VSub(a, b) == [i \in 1..Len(a) |-> a[i] - b[i]]
VAdd(a, b) == [i \in 1..Len(a) |-> a[i] + b[i]]
VScale(k, a) == [i \in 1..Len(a) |-> k * a[i]]
VNeg(a) == [i \in 1..Len(a) |-> -a[i]]
SumAbs(a) == SeqSum([i \in 1..Len(a) |-> Abs(a[i])])
SumSq(a) == SeqSum([i \in 1..Len(a) |-> a[i] * a[i]])

\* imf.sum(axis=1): the sample-wise sum of the columns of imf.
ColSum(imf, n) == [i \in 1..n |-> SeqSum([k \in 1..Len(imf) |-> imf[k][i]])]

\* --------------------------------------------------------- extrema detector
\* signal.argrelextrema(X, np.greater, order=1): strictly greater than both
\* neighbours; with the default clipping an end sample is compared with
\* itself and is never an extremum.
\* Mutant of IsPeak: the comparison is not strict (np.greater_equal).
IsPeakNonStrict(X, i) == /\ i >= 1
                         /\ i <= Len(X) - 2
                         /\ X[i + 1] >= X[i]
                         /\ X[i + 1] >= X[i + 2]

IsPeak(X, i) == /\ i >= 1
                /\ i <= Len(X) - 2
                /\ X[i + 1] > X[i]
                /\ X[i + 1] > X[i + 2]

\* _find_extrema with peak_prom_thresh=None, parabolic_extrema=False:
\* the locations in increasing order and the values there.
find_extrema(X) ==
    LET all == [i \in 1..Len(X) |-> i - 1]
        locs == SelectSeq(all, LAMBDA i : IsPeak(X, i))
    IN [locs |-> locs, mags |-> [k \in 1..Len(locs) |-> X[locs[k] + 1]]]

\* ----------------------------------------------------------- extrema padder
\* np.pad(a, w, 'reflect', reflect_type='odd'): reflected about the end
\* values, the end value itself excluded; a pad wider than Len(a)-1 is
\* filled chunk by chunk from the array padded so far.
\* Mutant of PadReflectOdd: reflect_type 'even', the mirror image of the
\* values next to each end.
PadReflectEven(a, w) ==
    LET n == Len(a)
        c == Min2(n - 1, w)
    IN [k \in 1..c |-> a[c + 2 - k]] \o a \o [k \in 1..c |-> a[n - k]]

RECURSIVE PadReflectOdd(_, _)
PadReflectOdd(a, w) ==
    IF w <= 0 THEN a
    ELSE LET n == Len(a)
             c == Min2(n - 1, w)
             left == [k \in 1..c |-> 2 * a[1] - a[c + 2 - k]]
             right == [k \in 1..c |-> 2 * a[n] - a[n - k]]
         IN PadReflectOdd(left \o a \o right, w - c)

\* np.pad(a, w, 'median', stat_length=1): the median of the one end value.
PadMedian1(a, w) ==
    [k \in 1..w |-> a[1]] \o a \o [k \in 1..w |-> a[Len(a)]]

SeqMax(a) == CHOOSE v \in {a[k] : k \in 1..Len(a)} : \A k \in 1..Len(a) : a[k] <= v
SeqMin(a) == CHOOSE v \in {a[k] : k \in 1..Len(a)} : \A k \in 1..Len(a) : a[k] >= v

\* Mutant of PadShort: padding goes on only while both ends are short.
PadShortBothEnds(locs, n) == SeqMax(locs) < n /\ SeqMin(locs) >= 0

\* max(ret_max_locs) < len(X) or min(ret_max_locs) >= 0
PadShort(locs, n) == SeqMax(locs) < n \/ SeqMin(locs) >= 0

\* The re-padding loop: pad again while the locations do not reach past
\* both ends of the signal.
RECURSIVE PadLoop(_, _, _, _)
PadLoop(locs, mags, w, n) ==
    IF PadShort(locs, n)
    THEN PadLoop(PadReflectOdd(locs, w), PadMedian1(mags, w), w, n)
    ELSE [locs |-> locs, mags |-> mags]

\* get_padded_extrema with the default padding options; mode is "peaks" or
\* "troughs".  None when fewer than 2 extrema are found.
get_padded_extrema(X, pad_width, mode) ==
    LET found == IF mode = "peaks" THEN find_extrema(X)
                 ELSE LET f == find_extrema(VNeg(X))
                      IN [locs |-> f.locs, mags |-> VNeg(f.mags)]
        size == Len(found.locs)
        w == IF size < pad_width THEN size ELSE pad_width
    IN IF size <= 1 THEN None
       ELSE IF w = 0 THEN Some(found)
       ELSE Some(PadLoop(PadReflectOdd(found.locs, w),
                         PadMedian1(found.mags, w), w, Len(X)))

\* ------------------------------------------------------ envelope interpolator
\* The values an interpolant through the knots (locs, mags) may take at
\* location t: the knot's magnitude at a knot, and between two adjacent
\* knots one of their two magnitudes (the interpolation kernels of scipy are
\* outside this module; the interpolant passes through its knots).
KnotChoices(locs, mags, t) ==
    IF \E k \in 1..Len(locs) : locs[k] = t
    THEN {mags[k] : k \in {j \in 1..Len(locs) : locs[j] = t}}
    ELSE UNION {{mags[k], mags[k + 1]} :
                k \in {j \in 1..(Len(locs) - 1) : locs[j] < t /\ t < locs[j + 1]}}

\* The interpolants sampled at the locations lo..hi.
RECURSIVE InterpolantsOn(_, _, _, _)
InterpolantsOn(locs, mags, lo, hi) ==
    IF hi < lo THEN {<<>>}
    ELSE {Append(e, v) : e \in InterpolantsOn(locs, mags, lo, hi - 1),
                         v \in KnotChoices(locs, mags, hi)}

\* The interpolants sampled at the n locations of the signal.
Interpolants(locs, mags, n) == InterpolantsOn(locs, mags, 0, n - 1)

\* interp.splrep(locs, pks) fits a cubic and needs more than 3 knots.
SplrepFails(interp_method, locs) == interp_method = "splrep" /\ Len(locs) <= 3

\* Mutant of KeptLength: the samples are not counted; the envelope is taken
\* to have the length of the signal.
KeptLengthUnchecked(locs, n) == n

\* The number of t in arange(locs[0], locs[-1]) with 0 <= t < N: the length
\* of env[tinds].
KeptLength(locs, n) ==
    Cardinality({t \in locs[1]..(locs[Len(locs)] - 1) : t >= 0 /\ t < n})

\* interp_envelope(X, mode, extrema_opts={'pad_width': pad_width}): the set
\* of its possible outcomes: None, an exception name, or an envelope.
\* t = arange(locs[0], locs[-1]) clipped to 0..N-1 must have N entries.
interp_envelope(X, mode, pad_width, interp_method) ==
    LET pe == get_padded_extrema(X, pad_width,
                                 IF mode = "upper" THEN "peaks" ELSE "troughs")
    IN IF pe = None THEN {[kind |-> "None"]}
       ELSE LET locs == pe[1].locs
                mags == pe[1].mags
            IN IF SplrepFails(interp_method, locs)
               THEN {[kind |-> "TypeError"]}
               ELSE IF KeptLength(locs, Len(X)) # Len(X)
               THEN {[kind |-> "ValueError"]}
               ELSE {[kind |-> "env", env |-> e] :
                     e \in Interpolants(locs, mags, Len(X))}

\* ------------------------------------------------- stopping-criterion evaluators
\* sd_stop(proto_imf, prev_imf, sd): metric = sum((proto_imf-prev_imf)^2) /
\* sum(proto_imf^2) < sd, sd the fraction sd[1]/sd[2].  A zero denominator
\* gives nan or inf, and the comparison is False.
sd_stop(proto_imf, prev_imf, sd) ==
    LET num == SumSq(VSub(proto_imf, prev_imf))
        den == SumSq(proto_imf)
    IN den > 0 /\ num * sd[2] < sd[1] * den

\* eval_metric[i] > thr in rilling_stop, thr the fraction thr[1]/thr[2]:
\* eval_metric = |upper+lower| / |upper-lower|; x/0 is inf, 0/0 is nan.
RillingExceeds(u, l, thr) ==
    IF Abs(u - l) = 0 THEN Abs(u + l) > 0
    ELSE Abs(u + l) * thr[2] > thr[1] * Abs(u - l)

rilling_stop(upper, lower, sd1, sd2, tol) ==
    LET n == Len(upper)
        over1 == Cardinality({i \in 1..n : RillingExceeds(upper[i], lower[i], sd1)})
        continue1 == over1 * tol[2] > tol[1] * n
        continue2 == \E i \in 1..n : RillingExceeds(upper[i], lower[i], sd2)
    IN ~(continue1 \/ continue2)

\* Mutant of fixed_stop: stops one iteration late.
fixed_stop_late(niters, max_iters) == niters = max_iters + 1

fixed_stop(niters, max_iters) == niters = max_iters

\* The convergence check at the head of an iteration of get_next_imf.
ConvergeError(stop_method, niters, max_iters) ==
    /\ stop_method # "fixed"
    /\ niters # (3 * max_iters) \div 4
    /\ niters > max_iters

\* The post-loop energy test of get_next_imf, energy_db > energy_thresh with
\* energy_db = 20*log10(sum(X^2)) - 20*log10(sum((X-proto_imf)^2)): the set of
\* its possible outcomes.  energy_thresh is held as the ratio
\* 10^(energy_thresh/20), so the test is sum(X^2) > ratio * sum((X-proto_imf)^2).
\* np.log10(s, where=s > 0) leaves its result uninitialised for s = 0: then
\* either outcome is possible.
EnergyOver(x, imf1, energy_thresh) ==
    IF energy_thresh = None THEN {FALSE}
    ELSE LET a == SumSq(x)
             b == SumSq(VSub(x, imf1))
         IN IF a = 0 \/ b = 0 THEN {TRUE, FALSE}
            ELSE {a > energy_thresh[1] * b}

\* ----------------------------------------------------------------- inputs
StopMethods == {"sd", "rilling", "fixed", "energy"}
MaxItersChoices == (-1)..MaxItersTop
MaxImfsChoices == {None} \cup {Some(k) : k \in 0..MaxImfsTop}
\* sift_thresh: 1 stands for the default 1e-8 (only an all-zero layer is
\* below it); the other is an amplitude sum real layers fall below.
SiftThreshChoices == {1, 4 * Unit}
PadWidths == 0..2
\* sd_thresh: the default 0.1 of get_next_imf, and 0.75.
SdThreshChoices == {<<1, 10>>, <<3, 4>>}
\* env_step_size: no step, the default full step, and a double step.
StepSizes == 0..2
RillingThresh == <<(<<1, 20>>), (<<1, 2>>), (<<1, 20>>)>>

Default ==
    [stop_method |-> "sd", max_iters |-> MaxItersTop, max_imfs |-> None,
     sift_thresh |-> 1, sd_thresh |-> <<1, 10>>, pad_width |-> 2,
     env_step_size |-> 1, energy_thresh |-> None, interp_method |-> "splrep"]

Configs ==
    {[Default EXCEPT !.stop_method = s, !.max_iters = m] :
        s \in StopMethods, m \in MaxItersChoices}
    \cup {[Default EXCEPT !.max_imfs = k, !.sift_thresh = t] :
        k \in MaxImfsChoices, t \in SiftThreshChoices}
    \cup {[Default EXCEPT !.pad_width = w] : w \in PadWidths}
    \cup {[Default EXCEPT !.energy_thresh = Some(10)]}
    \cup {[Default EXCEPT !.env_step_size = e, !.stop_method = s] :
            e \in StepSizes, s \in {"sd", "fixed"}}
    \cup {[Default EXCEPT !.sd_thresh = t] : t \in SdThreshChoices}

Zero(n) == [i \in 1..n |-> 0]
IsConstant(x) == \A i \in 1..Len(x) : x[i] = x[1]

\* Both envelopes of x exist: at least 2 peaks and at least 2 troughs.
BothEnvelopes(x) ==
    /\ Len(find_extrema(x).locs) >= 2
    /\ Len(find_extrema(VNeg(x)).locs) >= 2

\* The input signals: every two-level signal, and every three-level signal
\* that has both envelopes and starts and ends at 0.
Signals ==
    [1..SigLen -> {0, Unit}]
    \cup {x \in [1..SigLen -> Samples] :
            BothEnvelopes(x) /\ x[1] = 0 /\ x[SigLen] = 0}

\* ------------------------------------------------------------------ state
VARIABLES
    entry,          \* the entry point that was called
    batch,          \* ensemble_sift, mask_sift: the locals of the driver
    X,              \* sift: the input signal X
    cfg,            \* the options of the call
    pc,             \* where control is
    layer,          \* sift: layer
    imf,            \* sift: the IMF columns collected so far
    sift_proto,     \* sift: proto_imf, the working residual
    continue_sift,  \* sift: continue_sift
    gni_X,          \* get_next_imf: its input X
    proto_imf,      \* get_next_imf: proto_imf
    niters,         \* get_next_imf: niters
    continue_flag,  \* get_next_imf: continue_flag
    err,            \* the exception that ended the run, or "none"
    ret,            \* what the entry point returned: None until it returns
    hist            \* history of the current get_next_imf call and of the run

vars == <<entry, batch, X, cfg, pc, layer, imf, sift_proto, continue_sift,
          gni_X, proto_imf, niters, continue_flag, err, ret, hist>>

\* History: work counts the refinement iterations of the run; nenv and nsub
\* count, within the current get_next_imf call, the iterations that computed
\* envelopes and those that went on to subtract the envelope mean;
\* iter_start is proto_imf as the latest iteration found it; exit says how
\* the latest call left its loop; no_extrema says that some call of the run
\* ended for lack of extrema; prev_imf and last_imf are the collection before
\* the latest layer and that layer's column.
NoHist == [work |-> 0, nsub |-> 0, nenv |-> 0, iter_start |-> <<>>,
           exit |-> "none", no_extrema |-> FALSE, last_imf |-> <<>>,
           prev_imf |-> <<>>]

\* The drivers' locals while sift itself is the entry point.
NoBatch == [kind |-> "none"]

\* The locals of sift and get_next_imf before the first layer of X.
InitLocals ==
    /\ layer = 0
    /\ imf = <<>>
    /\ sift_proto = X
    /\ continue_sift = TRUE
    /\ gni_X = <<>>
    /\ proto_imf = <<>>
    /\ niters = 0
    /\ continue_flag = TRUE
    /\ err = "none"
    /\ ret = None
    /\ hist = NoHist

Init ==
    /\ entry = "sift"
    /\ batch = NoBatch
    /\ X \in Signals
    /\ cfg \in Configs
    /\ pc = "sift"
    /\ InitLocals

\* ------------------------------------------------------------- get_next_imf
\* complete_ensemble_sift sifts its noise buffers with sift(noise, sift_thresh,
\* 1, imf_opts): the fourth positional parameter of sift is verbose, so these
\* sifts run with imf_opts, envelope_opts and extrema_opts at their defaults.
NoiseSift == batch.kind = "complete" /\ batch.stage = "noise"

\* The imf_opts and envelope_opts of the get_next_imf call in progress.
Opts == IF NoiseSift THEN [Default EXCEPT !.sift_thresh = cfg.sift_thresh] ELSE cfg

\* sift calls get_next_imf(proto_imf, **imf_opts): the locals before the loop.
SiftCall ==
    /\ pc = "sift"
    /\ continue_sift
    /\ pc' = "gni"
    /\ gni_X' = sift_proto
    /\ proto_imf' = sift_proto
    /\ niters' = 0
    /\ continue_flag' = TRUE
    /\ hist' = [hist EXCEPT !.nsub = 0, !.nenv = 0, !.iter_start = <<>>,
                            !.exit = "none"]
    /\ UNCHANGED <<entry, batch, X, cfg, layer, imf, sift_proto, continue_sift, err, ret>>

\* Mutant of Raise: the caller catches the exception and returns what it has.
RaiseSwallowed(e) ==
    /\ pc' = "done"
    /\ err' = e
    /\ ret' = Some(imf)
    /\ UNCHANGED <<entry, batch, X, cfg, layer, imf, sift_proto, continue_sift,
                   gni_X, proto_imf, continue_flag>>

\* An exception leaves the function that raises it and every caller, none of
\* which catches it (a worker's exception comes out of p.starmap): nothing is
\* returned.
Raise(e) ==
    /\ pc' = "raised"
    /\ err' = e
    /\ UNCHANGED <<entry, batch, X, cfg, layer, imf, sift_proto, continue_sift,
                   gni_X, proto_imf, continue_flag, ret>>

\* The loop head finds niters > max_iters under a criterion other than 'fixed'.
GniConvergeError ==
    /\ pc = "gni"
    /\ ConvergeError(Opts.stop_method, niters, Opts.max_iters)
    /\ Raise("EMDSiftCovergeError")
    /\ UNCHANGED <<niters, hist>>

\* The outcomes of the two interp_envelope calls of one iteration.
\* extrema_opts reaches every get_next_imf call but the one get_mask_freqs
\* makes and those of the noise sifts of complete_ensemble_sift, which run
\* with the default pad_width.
ExtremaPadWidth ==
    IF \/ batch.kind = "mask" /\ batch.stage = "first_imf"
       \/ NoiseSift
    THEN Default.pad_width ELSE cfg.pad_width

Uppers == interp_envelope(proto_imf, "upper", ExtremaPadWidth, Opts.interp_method)
Lowers == interp_envelope(proto_imf, "lower", ExtremaPadWidth, Opts.interp_method)

IterStarts ==
    /\ pc = "gni"
    /\ ~ConvergeError(Opts.stop_method, niters, Opts.max_iters)
    /\ hist.work < MaxWork

\* An interp_envelope call raises: upper first, lower only if upper returned.
GniEnvelopeError ==
    /\ IterStarts
    /\ \E u \in Uppers :
          \/ /\ u.kind \in {"TypeError", "ValueError"}
             /\ Raise(u.kind)
          \/ /\ u.kind \notin {"TypeError", "ValueError"}
             /\ \E l \in Lowers :
                   /\ l.kind \in {"TypeError", "ValueError"}
                   /\ Raise(l.kind)
    /\ niters' = niters + 1
    /\ hist' = [hist EXCEPT !.work = @ + 1, !.nenv = @ + 1,
                            !.iter_start = proto_imf]

\* Both envelopes returned, one of them None: stop sifting altogether.  The
\* post-loop energy test can only clear continue_flag, which is clear already.
GniNoExtrema ==
    /\ IterStarts
    /\ \E u \in Uppers, l \in Lowers :
          /\ u.kind \in {"None", "env"}
          /\ l.kind \in {"None", "env"}
          /\ u.kind = "None" \/ l.kind = "None"
    /\ niters' = niters + 1
    /\ continue_flag' = FALSE
    /\ pc' = "gni_exit"
    /\ hist' = [hist EXCEPT !.work = @ + 1, !.nenv = @ + 1,
                            !.iter_start = proto_imf, !.exit = "no_extrema",
                            !.no_extrema = TRUE]
    /\ UNCHANGED <<entry, batch, X, cfg, layer, imf, sift_proto, continue_sift, gni_X,
                   proto_imf, err, ret>>

\* np.mean([upper, lower], axis=0)
EnvMean(upper, lower) == [i \in 1..Len(upper) |-> (upper[i] + lower[i]) \div 2]

\* The stop flag of the iteration that makes niters n; None when stop_method
\* names no criterion and the name stop is left unbound.
StopFlag(upper, lower, proto, x1, n) ==
    IF Opts.stop_method = "sd"
    THEN Some(sd_stop(proto, x1, Opts.sd_thresh))
    ELSE IF Opts.stop_method = "rilling"
    THEN Some(rilling_stop(upper, lower, RillingThresh[1], RillingThresh[2],
                           RillingThresh[3]))
    ELSE IF Opts.stop_method = "fixed"
    THEN Some(fixed_stop(n, Opts.max_iters))
    ELSE None

\* Mutant of Candidate: the local mean is not removed.
CandidateUnrefined(proto, avg) == proto

\* x1 = proto_imf - avg
Candidate(proto, avg) == VSub(proto, avg)

\* proto_imf = proto_imf - (env_step_size*avg)
Damped(proto, avg, env_step_size) == VSub(proto, VScale(env_step_size, avg))

\* Both envelopes exist and stop_method names no criterion: `if stop:` reads
\* an unbound local.
GniUnboundStop ==
    /\ IterStarts
    /\ \E u \in Uppers, l \in Lowers :
          /\ u.kind = "env"
          /\ l.kind = "env"
          /\ StopFlag(u.env, l.env, proto_imf,
                      Candidate(proto_imf, EnvMean(u.env, l.env)),
                      niters + 1) = None
    /\ Raise("UnboundLocalError")
    /\ niters' = niters + 1
    /\ hist' = [hist EXCEPT !.work = @ + 1, !.nenv = @ + 1, !.nsub = @ + 1,
                            !.iter_start = proto_imf]

\* The criterion fires: the candidate is the IMF and the loop ends; then the
\* post-loop energy test.
GniStop ==
    /\ IterStarts
    /\ \E u \in Uppers, l \in Lowers :
          /\ u.kind = "env"
          /\ l.kind = "env"
          /\ LET x1 == Candidate(proto_imf, EnvMean(u.env, l.env))
             IN /\ StopFlag(u.env, l.env, proto_imf, x1, niters + 1) = Some(TRUE)
                /\ proto_imf' = x1
                /\ \E over \in EnergyOver(gni_X, x1, Opts.energy_thresh) :
                      continue_flag' = ~over
    /\ niters' = niters + 1
    /\ pc' = "gni_exit"
    /\ hist' = [hist EXCEPT !.work = @ + 1, !.nenv = @ + 1, !.nsub = @ + 1,
                            !.iter_start = proto_imf, !.exit = "criterion"]
    /\ UNCHANGED <<entry, batch, X, cfg, layer, imf, sift_proto, continue_sift, gni_X,
                   err, ret>>

\* The criterion does not fire: subtract env_step_size times the mean.
GniContinue ==
    /\ IterStarts
    /\ \E u \in Uppers, l \in Lowers :
          /\ u.kind = "env"
          /\ l.kind = "env"
          /\ LET avg == EnvMean(u.env, l.env)
                 x1 == Candidate(proto_imf, avg)
             IN /\ StopFlag(u.env, l.env, proto_imf, x1, niters + 1) = Some(FALSE)
                /\ proto_imf' = Damped(proto_imf, avg, Opts.env_step_size)
    /\ niters' = niters + 1
    /\ hist' = [hist EXCEPT !.work = @ + 1, !.nenv = @ + 1, !.nsub = @ + 1,
                            !.iter_start = proto_imf]
    /\ UNCHANGED <<entry, batch, X, cfg, pc, layer, imf, sift_proto, continue_sift,
                   gni_X, continue_flag, err, ret>>

\* ---------------------------------------------------------------------- sift
\* Mutant of Residual: only the latest IMF is subtracted from the input.
ResidualLatestOnly(x, cols) == VSub(x, cols[Len(cols)])

\* proto_imf = X - imf.sum(axis=1)[:, None]
Residual(x, cols) == VSub(x, ColSum(cols, Len(x)))

\* layer == max_imfs, for a max_imfs that is not None
CapReached(max_imfs, lay) == max_imfs # None /\ lay = max_imfs[1]

\* np.abs(next_imf).sum() < sift_thresh
BelowThresh(next_imf, sift_thresh) == SumAbs(next_imf) < sift_thresh

\* Mutant of ContinueSift: the refiner's continue flag is ignored.
ContinueSiftIgnoresFlag(flag, max_imfs, lay, next_imf, sift_thresh) ==
    /\ ~CapReached(max_imfs, lay)
    /\ ~BelowThresh(next_imf, sift_thresh)

\* continue_sift at the end of the loop body
ContinueSift(flag, max_imfs, lay, next_imf, sift_thresh) ==
    /\ flag
    /\ ~CapReached(max_imfs, lay)
    /\ ~BelowThresh(next_imf, sift_thresh)

\* The max_imfs sift is called with: complete_ensemble_sift passes 1 to every
\* sift it starts, the other callers pass their own max_imfs on.
SiftMaxImfs == IF batch.kind = "complete" THEN Some(1) ELSE cfg.max_imfs

\* get_next_imf returned (next_imf, continue_sift): the rest of the loop body.
SiftLayer ==
    /\ pc = "gni_exit"
    /\ entry \in {"sift", "ensemble_sift", "complete_ensemble_sift",
                 "sift_second_layer"}
    /\ LET next_imf == proto_imf
           cols == Append(imf, next_imf)
       IN /\ imf' = cols
          /\ sift_proto' = Residual(X, cols)
          /\ layer' = layer + 1
          /\ continue_sift' = ContinueSift(continue_flag, SiftMaxImfs, layer + 1,
                                           next_imf, cfg.sift_thresh)
          /\ hist' = [hist EXCEPT !.last_imf = next_imf, !.prev_imf = imf]
    /\ pc' = "sift"
    /\ UNCHANGED <<entry, batch, X, cfg, gni_X, proto_imf, niters, continue_flag, err, ret>>

\* The loop condition is false: return imf.
SiftReturn ==
    /\ pc = "sift"
    /\ entry = "sift"
    /\ ~continue_sift
    /\ pc' = "done"
    /\ ret' = Some(imf)
    /\ UNCHANGED <<entry, batch, X, cfg, layer, imf, sift_proto, continue_sift, gni_X,
                   proto_imf, niters, continue_flag, err, hist>>

Next ==
    \/ SiftCall
    \/ GniConvergeError
    \/ GniEnvelopeError
    \/ GniNoExtrema
    \/ GniUnboundStop
    \/ GniStop
    \/ GniContinue
    \/ SiftLayer
    \/ SiftReturn

Spec == Init /\ [][Next]_vars

\* ====================================================================
\* get_next_imf called on its own
\* ====================================================================
\* The options of the calls: every criterion with every max_iters, taking no
\* step and the full step; an unknown criterion; no padding.
RefinerConfigs ==
    {[Default EXCEPT !.stop_method = s, !.max_iters = m, !.env_step_size = e] :
        s \in {"sd", "rilling", "fixed"}, m \in MaxItersChoices, e \in {0, 1}}
    \cup {[Default EXCEPT !.stop_method = "energy"],
          [Default EXCEPT !.pad_width = 0]}

\* get_next_imf(X, **options): its locals before the loop.
InitRefiner ==
    /\ entry = "get_next_imf"
    /\ batch = NoBatch
    /\ X \in [1..SigLen -> {0, Unit}]
    /\ cfg \in RefinerConfigs
    /\ pc = "gni"
    /\ layer = 0
    /\ imf = <<>>
    /\ sift_proto = X
    /\ continue_sift = TRUE
    /\ gni_X = X
    /\ proto_imf = X
    /\ niters = 0
    /\ continue_flag = TRUE
    /\ err = "none"
    /\ ret = None
    /\ hist = NoHist

\* return proto_imf, continue_flag
GniReturn ==
    /\ pc = "gni_exit"
    /\ entry = "get_next_imf"
    /\ pc' = "done"
    /\ ret' = Some([imf |-> proto_imf, flag |-> continue_flag])
    /\ UNCHANGED <<entry, batch, X, cfg, layer, imf, sift_proto, continue_sift,
                   gni_X, proto_imf, niters, continue_flag, err, hist>>

NextRefiner ==
    \/ GniConvergeError
    \/ GniEnvelopeError
    \/ GniNoExtrema
    \/ GniUnboundStop
    \/ GniStop
    \/ GniContinue
    \/ GniReturn

\* The call has a next statement to execute: the return, the raise at the
\* loop head, or one more iteration (within the iterations the model follows).
\* Every iteration ends in exactly one of GniEnvelopeError, GniNoExtrema,
\* GniUnboundStop, GniStop and GniContinue, so this is when NextRefiner is
\* enabled.
RefinerRuns ==
    \/ pc = "gni_exit"
    \/ /\ pc = "gni"
       /\ \/ ConvergeError(Opts.stop_method, niters, Opts.max_iters)
          \/ hist.work < MaxWork

\* What every step of NextRefiner does to the position in the function: it
\* moves pc or counts an iteration.
RefinerStep ==
    /\ RefinerRuns
    /\ pc' \in {"gni", "gni_exit", "done", "raised"}
    /\ niters' \in {niters, niters + 1}
    /\ <<pc', niters'>> # <<pc, niters>>

\* The interpreter executes the next statement of a running call: a call
\* that can take a step takes one.
SpecRefinerFair ==
    InitRefiner /\ [][NextRefiner]_vars /\ WF_<<pc, niters>>(RefinerStep)

\* ====================================================================
\* ensemble_sift and its worker _sift_with_noise
\* ====================================================================
\* Driver inputs: a zero and a constant signal, a two-level and a three-level
\* oscillation, and two longer signals whose second layer has extrema.
Alt(n) == [i \in 1..n |-> IF i % 2 = 0 THEN Unit ELSE 0]
Alternating == Alt(SigLen)
Mixed ==
    [i \in 1..SigLen |->
        IF i % 2 = 0 THEN 2 * Unit ELSE IF i % 4 = 3 THEN Unit ELSE 0]
Uneven == <<0, Unit, 0, Unit, Unit, 0, 2 * Unit, 0>>
ShortSignals == {Zero(SigLen), [i \in 1..SigLen |-> Unit], Alternating, Mixed}
LongSignals == {Uneven, VAdd(Uneven, Alt(Len(Uneven)))}

\* The options the drivers are run with: the defaults, a cap on the layers,
\* iteration caps the refinement overruns, an unknown criterion, no padding.
DriverConfigs ==
    {Default,
     [Default EXCEPT !.max_imfs = Some(1)],
     [Default EXCEPT !.max_imfs = Some(MaxImfsTop)],
     [Default EXCEPT !.max_iters = 0],
     [Default EXCEPT !.max_iters = 1],
     [Default EXCEPT !.stop_method = "rilling", !.max_iters = 0],
     [Default EXCEPT !.stop_method = "fixed", !.max_iters = 1],
     [Default EXCEPT !.stop_method = "energy"],
     [Default EXCEPT !.pad_width = 0]}

\* The longer signals are run under the iteration caps only.
LongConfigs ==
    {[Default EXCEPT !.max_iters = 0], [Default EXCEPT !.max_iters = 1]}

\* The pairs of X and options the drivers are run with.
DriverInputs ==
    (ShortSignals \X DriverConfigs) \cup (LongSignals \X LongConfigs)

NoiseModes == {"single", "flip", "both"}

\* rng.standard_normal(size=X.shape): the draws the model takes, for n
\* samples.
NoiseSeq(n) ==
    <<Alt(n), VNeg(Alt(n)), [i \in 1..n |-> IF 2 * i <= n THEN Unit ELSE 0]>>

Noises(n) == {NoiseSeq(n)[k] : k \in 1..Len(NoiseSeq(n))}

\* The values a seed of a worker's generator takes in the model.
SeedValues == 0..2

\* np.random.default_rng(s).standard_normal(size=n): a generator seeded with
\* s always makes the same draw.
Draw(s, n) == NoiseSeq(n)[(s % Len(NoiseSeq(n))) + 1]

\* np.random.SeedSequence(seed).generate_state(nensembles)[i] for a seed that
\* is not None: a fixed function of the seed and the index (the hash itself
\* is numpy's; any fixed function stands for it).
SeedGen(seed, i) == (2 * seed + i) % 3

\* The seeds the drivers are called with.
Seeds == {None, Some(0), Some(1)}

\* noise * noise_scaling, noise_scaling = X.std() * ensemble_noise: a
\* constant X has X.std() = 0 and all its noise is 0.
ScaledNoise(x, noise) == IF IsConstant(x) THEN Zero(Len(x)) ELSE noise

\* The calls of ensemble_sift the model makes, as tuples of X, the options,
\* nensembles, noise_mode, seed and nprocesses: every signal, set of options,
\* nensembles and noise_mode without a seed on one process; one more
\* realization on one signal; and every seed with one and two processes.
EnsembleInputs ==
    (ShortSignals \X DriverConfigs \X (0..MaxEnsembles) \X NoiseModes
        \X {None} \X {1})
    \cup ({Alternating} \X {[Default EXCEPT !.stop_method = "fixed", !.max_iters = 1]}
          \X {MaxEnsembles + 1} \X {"single"} \X {None} \X {1})
    \cup ({Alternating, Mixed} \X {Default} \X (1..MaxEnsembles)
          \X {"single", "flip"} \X (Seeds \ {None}) \X {1, 2})

InitEnsemble ==
    /\ entry = "ensemble_sift"
    /\ \E in \in EnsembleInputs :
          /\ X = in[1]
          /\ cfg = in[2]
          /\ batch = [kind |-> "ensemble", X |-> in[1], nensembles |-> in[3],
                      noise_mode |-> in[4], seed |-> in[5],
                      nprocesses |-> in[6], seedgen |-> <<>>, order |-> <<>>,
                      noise |-> <<>>, ii |-> 0, half |-> "none",
                      first |-> <<>>, res |-> <<>>]
    /\ pc = "ens"
    /\ InitLocals

\* noise_mode is neither 'single' nor 'flip'.
EnsRejectNoiseMode ==
    /\ pc = "ens"
    /\ batch.noise_mode \notin {"single", "flip"}
    /\ Raise("ValueError")
    /\ UNCHANGED <<niters, hist>>

\* The orders in which n jobs given to a pool of nprocesses workers may
\* finish: a single worker takes them in turn.
RECURSIVE Orders(_)
Orders(jobs) ==
    IF jobs = {} THEN {<<>>}
    ELSE UNION {{<<j>> \o o : o \in Orders(jobs \ {j})} : j \in jobs}

FinishOrders(n, nprocesses) ==
    IF nprocesses = 1 THEN {[k \in 1..n |-> k - 1]} ELSE Orders(0..(n - 1))

\* seedgen = SeedSequence(seed).generate_state(nensembles): fresh entropy
\* when seed is None. The argument list of the workers: job ii draws its
\* noise from default_rng(seedgen[ii]). p.starmap then runs the jobs, which
\* finish in one of the orders the pool allows.
EnsStart ==
    /\ pc = "ens"
    /\ batch.noise_mode \in {"single", "flip"}
    /\ \E sg \in [1..batch.nensembles -> SeedValues],
          order \in FinishOrders(batch.nensembles, batch.nprocesses) :
          /\ batch.seed # None
                => \A k \in 1..batch.nensembles :
                      sg[k] = SeedGen(batch.seed[1], k - 1)
          /\ batch' = [batch EXCEPT
                          !.seedgen = sg,
                          !.order = order,
                          !.noise = [k \in 1..batch.nensembles |->
                                        ScaledNoise(batch.X,
                                                    Draw(sg[k], Len(batch.X)))]]
    /\ pc' = "ens_job"
    /\ UNCHANGED <<entry, X, cfg, layer, imf, sift_proto, continue_sift, gni_X,
                   proto_imf, niters, continue_flag, err, ret, hist>>

\* A sift of x starts: its locals, and those of get_next_imf, are fresh.
StartSift(x) ==
    /\ X' = x
    /\ pc' = "sift"
    /\ layer' = 0
    /\ imf' = <<>>
    /\ sift_proto' = x
    /\ continue_sift' = TRUE
    /\ gni_X' = <<>>
    /\ proto_imf' = <<>>
    /\ niters' = 0
    /\ continue_flag' = TRUE
    /\ hist' = NoHist

\* The job that finishes next, when ii jobs have finished.
Job == batch.order[batch.ii + 1]

\* Mutant of Collect: the results are kept in the order the jobs finish.
CollectAsFinished(res, r) == Append(res, r)

\* res = p.starmap(...): the results come back in the order of the argument
\* list, whatever the order the jobs finish in. res holds the results of the
\* finished jobs in that order; r.job is the index of the job r comes from.
Collect(res, r) ==
    LET before == Cardinality({k \in 1..Len(res) : res[k].job < r.job})
    IN SubSeq(res, 1, before) \o <<r>> \o SubSeq(res, before + 1, Len(res))

\* _sift_with_noise(X, ..., job ii): sift(X + noise).
EnsJob ==
    /\ pc = "ens_job"
    /\ batch.ii < batch.nensembles
    /\ StartSift(VAdd(batch.X, batch.noise[Job + 1]))
    /\ batch' = [batch EXCEPT !.half = "plus"]
    /\ UNCHANGED <<entry, cfg, err, ret>>

\* noise_mode 'single': the worker returns imf.
EnsJobReturn ==
    /\ pc = "sift"
    /\ entry = "ensemble_sift"
    /\ ~continue_sift
    /\ batch.noise_mode = "single"
    /\ batch' = [batch EXCEPT
                    !.res = Collect(@, [cols |-> imf, den |-> 1, job |-> Job]),
                    !.ii = @ + 1, !.half = "none"]
    /\ pc' = "ens_job"
    /\ UNCHANGED <<entry, X, cfg, layer, imf, sift_proto, continue_sift, gni_X,
                   proto_imf, niters, continue_flag, err, ret, hist>>

\* noise_mode 'flip': the second sift of the worker, sift(X - noise).
EnsFlipSecond ==
    /\ pc = "sift"
    /\ entry = "ensemble_sift"
    /\ ~continue_sift
    /\ batch.noise_mode = "flip"
    /\ batch.half = "plus"
    /\ StartSift(VSub(batch.X, batch.noise[Job + 1]))
    /\ batch' = [batch EXCEPT !.half = "minus", !.first = imf]
    /\ UNCHANGED <<entry, cfg, err, ret>>

\* imf += second, in place: second must have the columns of imf, or one
\* column, which is then added to every column of imf.
FlipAdds(first, second) ==
    Len(second) = Len(first) \/ Len(second) = 1

FlipSum(first, second) ==
    [k \in 1..Len(first) |->
        VAdd(first[k], IF Len(second) = 1 THEN second[1] ELSE second[k])]

\* noise_mode 'flip': the worker returns (imf + second) / 2.
EnsFlipReturn ==
    /\ pc = "sift"
    /\ entry = "ensemble_sift"
    /\ ~continue_sift
    /\ batch.noise_mode = "flip"
    /\ batch.half = "minus"
    /\ FlipAdds(batch.first, imf)
    /\ batch' = [batch EXCEPT
                    !.res = Collect(@, [cols |-> FlipSum(batch.first, imf),
                                        den |-> 2, job |-> Job]),
                    !.ii = @ + 1, !.half = "none", !.first = <<>>]
    /\ pc' = "ens_job"
    /\ UNCHANGED <<entry, X, cfg, layer, imf, sift_proto, continue_sift, gni_X,
                   proto_imf, niters, continue_flag, err, ret, hist>>

\* noise_mode 'flip': the two sifts differ in their number of columns.
EnsFlipMismatch ==
    /\ pc = "sift"
    /\ entry = "ensemble_sift"
    /\ ~continue_sift
    /\ batch.noise_mode = "flip"
    /\ batch.half = "minus"
    /\ ~FlipAdds(batch.first, imf)
    /\ Raise("ValueError")
    /\ UNCHANGED <<niters, hist>>

\* [r.shape[1] for r in res]
Nimfs(res) == [k \in 1..Len(res) |-> Len(res[k].cols)]

\* uni[np.argmax(unic)]: the smallest of the most frequent column counts.
TargetImfs(nimfs) ==
    LET count(c) == Cardinality({k \in 1..Len(nimfs) : nimfs[k] = c})
        uni == {nimfs[k] : k \in 1..Len(nimfs)}
        best == {c \in uni : \A d \in uni : count(d) <= count(c)}
    IN CHOOSE c \in best : \A d \in best : c <= d

\* The exception the consensus step raises, or "none".
ConsensusError(res, max_imfs) ==
    IF res = <<>>
    THEN IF max_imfs = None THEN "IndexError" ELSE "ValueError"
    ELSE LET top == IF max_imfs = None THEN Len(res[1].cols) ELSE max_imfs[1]
         IN IF top > TargetImfs(Nimfs(res)) THEN "IndexError" ELSE "none"

\* The mean over the retained realizations of their first max_imfs columns,
\* held as the columns' sums and the number that divides them.
Consensus(res, max_imfs) ==
    LET top == IF max_imfs = None THEN Len(res[1].cols) ELSE max_imfs[1]
        target == TargetImfs(Nimfs(res))
        kept == SelectSeq(res, LAMBDA r : Len(r.cols) = target)
        n == Len(kept[1].cols[1])
        total(k) == ColSum([j \in 1..Len(kept) |-> kept[j].cols[k]], n)
    IN [num |-> [k \in 1..top |-> total(k)], den |-> kept[1].den * Len(kept)]

\* Every worker returned: the consensus over res is the result.
EnsConsensus ==
    /\ pc = "ens_job"
    /\ batch.ii = batch.nensembles
    /\ ConsensusError(batch.res, cfg.max_imfs) = "none"
    /\ ret' = Some(Consensus(batch.res, cfg.max_imfs))
    /\ pc' = "done"
    /\ UNCHANGED <<entry, batch, X, cfg, layer, imf, sift_proto, continue_sift,
                   gni_X, proto_imf, niters, continue_flag, err, hist>>

\* Every worker returned and the consensus step raises.
EnsConsensusError ==
    /\ pc = "ens_job"
    /\ batch.ii = batch.nensembles
    /\ ConsensusError(batch.res, cfg.max_imfs) # "none"
    /\ Raise(ConsensusError(batch.res, cfg.max_imfs))
    /\ UNCHANGED <<niters, hist>>

NextEnsemble ==
    \/ EnsRejectNoiseMode
    \/ EnsStart
    \/ EnsJob
    \/ SiftCall
    \/ GniConvergeError
    \/ GniEnvelopeError
    \/ GniNoExtrema
    \/ GniUnboundStop
    \/ GniStop
    \/ GniContinue
    \/ SiftLayer
    \/ EnsJobReturn
    \/ EnsFlipSecond
    \/ EnsFlipReturn
    \/ EnsFlipMismatch
    \/ EnsConsensus
    \/ EnsConsensusError

SpecEnsemble == InitEnsemble /\ [][NextEnsemble]_vars

\* ====================================================================
\* mask_sift, get_mask_freqs and get_next_imf_mask
\* ====================================================================
\* Frequencies are fractions <<numerator, denominator>>, denominator > 0.
FracLess(a, b) == a[1] * b[2] < b[1] * a[2]
Half == <<1, 2>>

\* p / q rounded to the nearest integer, q > 0.
RoundDiv(p, q) == (2 * p + q) \div (2 * q)

RECURSIVE ISqrtIn(_, _, _)
ISqrtIn(v, lo, hi) ==
    IF lo >= hi THEN lo
    ELSE LET mid == (lo + hi + 1) \div 2
         IN IF mid * mid <= v THEN ISqrtIn(v, mid, hi)
            ELSE ISqrtIn(v, lo, mid - 1)

\* X.std(), rounded down to an integer: sqrt(n*sum(x^2) - sum(x)^2) / n
Std(x) ==
    LET n == Len(x)
        v == n * SumSq(x) - SeqSum(x) * SeqSum(x)
    IN ISqrtIn(v, 0, Min2(v, 64 * Unit)) \div n

\* np.sign
Sign(v) == IF v > 0 THEN 1 ELSE IF v < 0 THEN -1 ELSE 0

\* zero_crossing_count(X): (np.diff(np.sign(X), axis=0) != 0).sum(axis=0)
zero_crossing_count(x) ==
    Cardinality({i \in 1..(Len(x) - 1) : Sign(x[i + 1]) # Sign(x[i])})

\* cos of a / b turns for |a / b| <= 1/4, as a fraction: the rational
\* approximation (b^2 - 16 a^2) / (b^2 + 4 a^2), exact at 0, 1/6 and 1/4 turn.
CosQuarter(a, b) == <<b * b - 16 * a * a, b * b + 4 * a * a>>

\* cos of a / b turns, b > 0, as a fraction.
CosTurns(a, b) ==
    LET r == a % b
    IN IF 4 * r <= b THEN CosQuarter(r, b)
       ELSE IF 4 * r < 3 * b
       THEN LET c == CosQuarter(2 * r - b, 2 * b) IN <<-c[1], c[2]>>
       ELSE CosQuarter(r - b, b)

\* m = amp * np.cos(zf * t + phases): column k (0-based) of the masks of
\* frequency z = <<p, q>>, the wave rounded to the grid of the samples.
\* amp is in sample units (Unit stands for 1.0).
Mask(n, z, amp, nphases, k) ==
    [i \in 1..n |->
        LET c == CosTurns(z[1] * (i - 1) * nphases + k * z[2], z[2] * nphases)
        IN Unit * RoundDiv(amp * c[1], c[2] * Unit)]

\* The binary digits the mean over nphases results takes off the grid.
PhaseBits(nphases) == IF nphases = 1 THEN 0 ELSE IF nphases = 2 THEN 1 ELSE 2

\* imfs = np.concatenate(imfs, axis=1) - m; imfs.mean(axis=1)
PhaseMean(res, m, n) ==
    LET total == ColSum([k \in 1..Len(res) |-> VSub(res[k].imf, m[k])], n)
    IN [i \in 1..n |-> total[i] \div Len(res)]

\* Mutant of AnyFlag: the layer continues only if every phase does.
AllFlags(res) == \A k \in 1..Len(res) : res[k].flag

\* np.any(continue_flags)
AnyFlag(res) == \E k \in 1..Len(res) : res[k].flag

\* z / mask_step_factor**ii for ii in range(max_imfs)
StepFreqs(z, mask_step_factor, max_imfs) ==
    [k \in 1..max_imfs |-> <<z[1], z[2] * mask_step_factor ^ (k - 1)>>]

\* The mask_freqs argument: 'zc', a float, an int, or a sequence of floats;
\* v holds its frequencies (the one of a float or an int).
MaskFreqChoices ==
    {[kind |-> "zc", v |-> <<>>]}
    \cup {[kind |-> "float", v |-> <<z>>] :
            z \in {<<-1, 4>>, <<0, 1>>, <<1, 4>>, <<1, 2>>, <<3, 4>>}}
    \cup {[kind |-> "int", v |-> <<z>>] : z \in {<<0, 1>>, <<1, 1>>}}
    \cup {[kind |-> "seq", v |-> zs] :
            zs \in {<<(<<1, 4>>)>>, <<(<<1, 4>>), (<<1, 8>>)>>,
                    <<(<<3, 4>>), (<<1, 4>>)>>, <<(<<1, 4>>), (<<0, 1>>)>>}}

\* mask_amp given as an array: one amplitude per layer.
MaskAmpArrays == {<<1>>, <<1, 2>>, <<2, 1, 1>>}

\* The other arguments of mask_sift; mask_step_factor is left at its default.
\* mask_amp is a number or an array; v holds its values.
mask_step_factor == 2
MaskDefault ==
    [mask_freqs |-> [kind |-> "zc", v |-> <<>>],
     mask_amp |-> [kind |-> "number", v |-> <<1>>],
     mask_amp_mode |-> "ratio_imf", nphases |-> 2]
MaskArgs ==
    {[MaskDefault EXCEPT !.mask_freqs = f] : f \in MaskFreqChoices}
    \cup {[MaskDefault EXCEPT !.mask_freqs = [kind |-> "float", v |-> <<(<<1, 4>>)>>],
                              !.mask_amp = [kind |-> "number", v |-> <<a>>],
                              !.mask_amp_mode = mode,
                              !.nphases = np] :
            a \in {1, 2}, mode \in {"abs", "ratio_imf", "ratio_sig"},
            np \in {1, 2}}
    \cup {[MaskDefault EXCEPT !.mask_freqs = f,
                              !.mask_amp = [kind |-> "array", v |-> a]] :
            f \in {[kind |-> "zc", v |-> <<>>],
                   [kind |-> "seq", v |-> <<(<<1, 4>>), (<<1, 8>>)>>]},
            a \in MaskAmpArrays}
    \cup {[MaskDefault EXCEPT !.mask_freqs = [kind |-> "float", v |-> <<(<<1, 4>>)>>],
                              !.mask_amp_mode = "abs", !.nphases = 4]}

\* mask_sift is run on the driver inputs with max_imfs a number, as its own
\* default is, and with the defaults under every max_imfs and every choice of
\* its other arguments.
MaskBasic ==
    {MaskDefault,
     [MaskDefault EXCEPT
         !.mask_freqs = [kind |-> "seq", v |-> <<(<<1, 4>>), (<<1, 8>>)>>]]}

\* The locals of mask_sift on entry, for the arguments a, max_imfs k and
\* nprocesses; outer holds the locals of mask_sift_second_layer when it is
\* the caller.
MaskLocals(a, k, nprocesses) ==
    [kind |-> "mask", given |-> a.mask_freqs,
     mask_freqs |-> a.mask_freqs, max_imfs |-> k,
     mask_amp |-> a.mask_amp, mask_amp_mode |-> a.mask_amp_mode,
     nphases |-> a.nphases, nprocesses |-> nprocesses, order |-> <<>>,
     stage |-> "front", phase |-> 0,
     res |-> <<>>, m |-> <<>>, calls |-> 0, bits |-> 0,
     maxwork |-> 0, outer |-> NoBatch]

InitMask ==
    /\ entry = "mask_sift"
    /\ \E i \in DriverInputs, k \in MaxImfsChoices, a \in MaskArgs :
          /\ \/ k = Some(MaxImfsTop) /\ a \in MaskBasic
             \/ i[2] = Default /\ k = Some(MaxImfsTop)
             \/ i[2] = Default /\ a \in MaskBasic
          /\ X = i[1]
          /\ cfg = [i[2] EXCEPT !.max_imfs = k]
          /\ batch = MaskLocals(a, k, 1)
    /\ pc = "mask"
    /\ InitLocals

\* get_next_imf(x, ...) is called: its locals before the loop; work is the
\* number of binary digits of the grid in use when the call starts.
CallGni(x, work) ==
    /\ pc' = "gni"
    /\ gni_X' = x
    /\ proto_imf' = x
    /\ niters' = 0
    /\ continue_flag' = TRUE
    /\ hist' = [NoHist EXCEPT !.work = work]

\* mask_freqs is a sequence and max_imfs a number: max_imfs is cut to its
\* length.
MaskFrontSequence ==
    /\ pc = "mask"
    /\ batch.mask_freqs.kind = "seq"
    /\ cfg.max_imfs # None
    /\ batch' = [batch EXCEPT
                    !.max_imfs = Some(Min2(Len(batch.mask_freqs.v),
                                           cfg.max_imfs[1])),
                    !.stage = "loop"]
    /\ pc' = "mask_loop"
    /\ UNCHANGED <<entry, X, cfg, layer, imf, sift_proto, continue_sift, gni_X,
                   proto_imf, niters, continue_flag, err, ret, hist>>

\* len(mask_freqs) < max_imfs with max_imfs None
MaskFrontSequenceNone ==
    /\ pc = "mask"
    /\ batch.mask_freqs.kind = "seq"
    /\ cfg.max_imfs = None
    /\ Raise("TypeError")
    /\ UNCHANGED <<niters, hist>>

\* get_mask_freqs(X, first_mask_mode) for a float first_mask_mode: the
\* frequency, or the exception raised.
get_mask_freqs(first_mask_mode) ==
    IF FracLess(first_mask_mode, Half)
    THEN IF ~FracLess(<<0, 1>>, first_mask_mode) \/ ~FracLess(first_mask_mode, Half)
         THEN [kind |-> "raise", e |-> "ValueError"]
         ELSE [kind |-> "z", z |-> first_mask_mode]
    ELSE [kind |-> "raise", e |-> "UnboundLocalError"]

\* The mask frequencies made from the first one: range(max_imfs) needs a
\* number.
MaskFreqsFrom(z) ==
    /\ cfg.max_imfs # None
    /\ batch' = [batch EXCEPT
                    !.mask_freqs = [kind |-> "seq",
                                    v |-> StepFreqs(z, mask_step_factor,
                                                    cfg.max_imfs[1])],
                    !.stage = "loop"]
    /\ pc' = "mask_loop"

\* mask_freqs is a float that get_mask_freqs accepts.
MaskFrontFloat ==
    /\ pc = "mask"
    /\ batch.mask_freqs.kind = "float"
    /\ get_mask_freqs(batch.mask_freqs.v[1]).kind = "z"
    /\ MaskFreqsFrom(get_mask_freqs(batch.mask_freqs.v[1]).z)
    /\ UNCHANGED <<entry, X, cfg, layer, imf, sift_proto, continue_sift, gni_X,
                   proto_imf, niters, continue_flag, err, ret, hist>>

\* mask_freqs is a float and get_mask_freqs raises, or max_imfs is None.
MaskFrontFloatError ==
    /\ pc = "mask"
    /\ batch.mask_freqs.kind = "float"
    /\ LET r == get_mask_freqs(batch.mask_freqs.v[1])
       IN IF r.kind = "raise" THEN Raise(r.e)
          ELSE cfg.max_imfs = None /\ Raise("TypeError")
    /\ UNCHANGED <<niters, hist>>

\* mask_freqs is 'zc': get_mask_freqs computes the first IMF with no mask,
\* passing imf_opts only.
MaskFirstImfCall ==
    /\ pc = "mask"
    /\ batch.mask_freqs.kind = "zc"
    /\ CallGni(X, 0)
    /\ batch' = [batch EXCEPT !.stage = "first_imf", !.calls = @ + 1]
    /\ UNCHANGED <<entry, X, cfg, layer, imf, sift_proto, continue_sift, err, ret>>

\* z = num_zero_crossings / imf.shape[0] / 4
MaskFirstImfReturn ==
    /\ pc = "gni_exit"
    /\ batch.kind = "mask"
    /\ batch.stage = "first_imf"
    /\ MaskFreqsFrom(<<zero_crossing_count(proto_imf), 4 * Len(proto_imf)>>)
    /\ UNCHANGED <<entry, X, cfg, layer, imf, sift_proto, continue_sift, gni_X,
                   proto_imf, niters, continue_flag, err, ret, hist>>

\* The first IMF is there and max_imfs is None.
MaskFirstImfNone ==
    /\ pc = "gni_exit"
    /\ batch.kind = "mask"
    /\ batch.stage = "first_imf"
    /\ cfg.max_imfs = None
    /\ Raise("TypeError")
    /\ UNCHANGED <<niters, hist>>

\* mask_freqs is an int: neither branch of the front part takes it.
MaskFrontOther ==
    /\ pc = "mask"
    /\ batch.mask_freqs.kind = "int"
    /\ batch' = [batch EXCEPT !.stage = "loop"]
    /\ pc' = "mask_loop"
    /\ UNCHANGED <<entry, X, cfg, layer, imf, sift_proto, continue_sift, gni_X,
                   proto_imf, niters, continue_flag, err, ret, hist>>

\* sd of the loop body: X.std() under the ratio modes (the latest IMF's
\* under 'ratio_imf' after the first layer), 1 under 'abs'.
MaskSd ==
    IF batch.mask_amp_mode = "abs" THEN Unit
    ELSE IF batch.mask_amp_mode = "ratio_imf" /\ layer > 0
    THEN Std(imf[Len(imf)])
    ELSE Std(X)

\* The exception mask_amp[imf_layer] raises for an array-valued mask_amp, or
\* "none".
MaskAmpError ==
    IF batch.mask_amp.kind = "array" /\ layer >= Len(batch.mask_amp.v)
    THEN "IndexError" ELSE "none"

\* mask_amp for a number, mask_amp[imf_layer] for an array.
MaskAmp ==
    IF batch.mask_amp.kind = "number" THEN batch.mask_amp.v[1]
    ELSE batch.mask_amp.v[layer + 1]

\* The exception mask_freqs[imf_layer] raises, or "none".
MaskFreqError ==
    IF batch.mask_freqs.kind # "seq" THEN "TypeError"
    ELSE IF layer >= Len(batch.mask_freqs.v) THEN "IndexError"
    ELSE "none"

\* get_next_imf_mask(proto_imf, mask_freqs[imf_layer], amp, nphases): the
\* masks of the layer and the argument list of the phases, which the pool
\* runs and which finish in one of the orders the pool allows.
MaskCall ==
    /\ pc = "mask_loop"
    /\ continue_sift
    /\ MaskAmpError = "none"
    /\ MaskFreqError = "none"
    /\ \E order \in FinishOrders(batch.nphases, batch.nprocesses) :
          batch' = [batch EXCEPT
                       !.m = [k \in 1..batch.nphases |->
                                 Mask(Len(X), batch.mask_freqs.v[layer + 1],
                                      MaskAmp * MaskSd, batch.nphases,
                                      k - 1)],
                       !.order = order,
                       !.phase = 0, !.res = <<>>, !.maxwork = batch.bits]
    /\ pc' = "mask_phase"
    /\ UNCHANGED <<entry, X, cfg, layer, imf, sift_proto, continue_sift, gni_X,
                   proto_imf, niters, continue_flag, err, ret, hist>>

\* mask_amp[imf_layer] raises, or else mask_freqs[imf_layer] does.
MaskCallError ==
    /\ pc = "mask_loop"
    /\ continue_sift
    /\ \/ MaskAmpError # "none" /\ Raise(MaskAmpError)
       \/ MaskAmpError = "none" /\ MaskFreqError # "none"
             /\ Raise(MaskFreqError)
    /\ UNCHANGED <<niters, hist>>

\* The phase that finishes next, when batch.phase of them have finished.
PhaseJob == batch.order[batch.phase + 1]

\* p.starmap(my_get_next_imf, args): the call for one phase, on X + mask.
MaskPhaseCall ==
    /\ pc = "mask_phase"
    /\ batch.phase < batch.nphases
    /\ CallGni(VAdd(sift_proto, batch.m[PhaseJob + 1]),
               batch.bits + PhaseBits(batch.nphases))
    /\ batch' = [batch EXCEPT !.calls = @ + 1]
    /\ UNCHANGED <<entry, X, cfg, layer, imf, sift_proto, continue_sift, err, ret>>

\* The call for one phase returned (proto_imf, continue_flag); from is the
\* signal it was given.
MaskPhaseReturn ==
    /\ pc = "gni_exit"
    /\ batch.kind = "mask"
    /\ batch.stage = "loop"
    /\ batch' = [batch EXCEPT
                    !.res = Collect(@, [imf |-> proto_imf,
                                        flag |-> continue_flag,
                                        from |-> gni_X, job |-> PhaseJob]),
                    !.phase = @ + 1,
                    !.maxwork = Max2(@, hist.work)]
    /\ pc' = "mask_phase"
    /\ UNCHANGED <<entry, X, cfg, layer, imf, sift_proto, continue_sift, gni_X,
                   proto_imf, niters, continue_flag, err, ret, hist>>

\* imf_layer == max_imfs-1, for a max_imfs that is not None
MaskCapReached(max_imfs, imf_layer) ==
    max_imfs # None /\ imf_layer = max_imfs[1] - 1

\* Every phase returned: get_next_imf_mask returns the mean of the results
\* less their masks and np.any of the flags; the rest of the loop body of
\* mask_sift.
MaskLayer ==
    /\ pc = "mask_phase"
    /\ batch.phase = batch.nphases
    /\ LET next_imf == PhaseMean(batch.res, batch.m, Len(X))
           cols == Append(imf, next_imf)
       IN /\ imf' = cols
          /\ sift_proto' = Residual(X, cols)
          /\ continue_sift' =
                /\ AnyFlag(batch.res)
                /\ ~MaskCapReached(batch.max_imfs, layer)
                /\ ~BelowThresh(next_imf, cfg.sift_thresh)
          /\ hist' = [hist EXCEPT !.last_imf = next_imf, !.prev_imf = imf]
    /\ layer' = layer + 1
    /\ batch' = [batch EXCEPT !.bits = batch.maxwork]
    /\ pc' = "mask_loop"
    /\ UNCHANGED <<entry, X, cfg, gni_X, proto_imf, niters, continue_flag, err, ret>>

\* The loop condition is false: return imf.
MaskReturn ==
    /\ pc = "mask_loop"
    /\ entry = "mask_sift"
    /\ ~continue_sift
    /\ pc' = "done"
    /\ ret' = Some(imf)
    /\ UNCHANGED <<entry, batch, X, cfg, layer, imf, sift_proto, continue_sift,
                   gni_X, proto_imf, niters, continue_flag, err, hist>>

NextMask ==
    \/ MaskFrontSequence
    \/ MaskFrontSequenceNone
    \/ MaskFrontFloat
    \/ MaskFrontFloatError
    \/ MaskFirstImfCall
    \/ MaskFirstImfReturn
    \/ MaskFirstImfNone
    \/ MaskFrontOther
    \/ MaskCall
    \/ MaskCallError
    \/ MaskPhaseCall
    \/ GniConvergeError
    \/ GniEnvelopeError
    \/ GniNoExtrema
    \/ GniUnboundStop
    \/ GniStop
    \/ GniContinue
    \/ MaskPhaseReturn
    \/ MaskLayer
    \/ MaskReturn

SpecMask == InitMask /\ [][NextMask]_vars

\* ====================================================================
\* complete_ensemble_sift
\* ====================================================================
\* The options complete_ensemble_sift is run with.
CompleteConfigs ==
    {Default,
     [Default EXCEPT !.max_imfs = Some(0)],
     [Default EXCEPT !.max_imfs = Some(1)],
     [Default EXCEPT !.sift_thresh = 4 * Unit],
     [Default EXCEPT !.max_iters = 0],
     [Default EXCEPT !.stop_method = "energy"],
     [Default EXCEPT !.pad_width = 0]}

\* np.random.random_sample((N, nensembles)): the columns the model takes,
\* for n samples; their values lie in [0, 1).
Buffers(n) == {Alt(n), [i \in 1..n |-> IF 2 * i <= n THEN Unit ELSE 0]}

\* The calls of complete_ensemble_sift the model makes, as tuples of X, the
\* options, nensembles, noise_mode, seed and nprocesses: every signal and
\* every set of options with one realization, every nensembles and
\* noise_mode on the signals whose scaled noise is zero, and every seed.
CompleteInputs ==
    (ShortSignals \X {Default} \X {1} \X {"single"} \X {None} \X {1})
    \cup ({Alternating} \X CompleteConfigs \X {1} \X {"single"} \X {Some(0)}
          \X {1})
    \cup ({Zero(SigLen), [i \in 1..SigLen |-> Unit]} \X {Default}
          \X (1..MaxEnsembles) \X NoiseModes \X {None} \X {1})
    \cup ({Alternating} \X {Default} \X {1} \X {"both"} \X Seeds \X {1})

\* The locals of complete_ensemble_sift on entry, for the call in. nres holds
\* the results of the sifts of the noise buffers.
CompleteLocals(in) ==
    [kind |-> "complete", X |-> in[1], nensembles |-> in[3],
     noise_mode |-> in[4], seed |-> in[5], nprocesses |-> in[6],
     order |-> <<>>, noise |-> <<>>,
     stage |-> "ens", inloop |-> FALSE, ii |-> 0,
     half |-> "none", drawn |-> <<>>, first |-> <<>>,
     res |-> <<>>, nres |-> <<>>, proto |-> in[1], imf |-> <<>>,
     next_imf |-> <<>>, layer |-> 0, go |-> TRUE,
     unseeded |-> FALSE, sifts |-> 0]

InitComplete ==
    /\ entry = "complete_ensemble_sift"
    /\ \E in \in CompleteInputs :
          /\ X = in[1]
          /\ cfg = in[2]
          /\ batch = CompleteLocals(in)
    /\ pc = "ces"
    /\ InitLocals

\* noise = np.random.random_sample((N, nensembles)) * noise_scaling, drawn
\* from the global generator, and the argument list of the first stage.
CesStart ==
    /\ pc = "ces"
    /\ \E bs \in [1..batch.nensembles -> Buffers(Len(batch.X))] :
          batch' = [batch EXCEPT
                       !.noise = [k \in 1..batch.nensembles |->
                                     ScaledNoise(batch.X, bs[k])],
                       !.unseeded = TRUE]
    /\ pc' = "ces_job"
    /\ UNCHANGED <<entry, X, cfg, layer, imf, sift_proto, continue_sift, gni_X,
                   proto_imf, niters, continue_flag, err, ret, hist>>

\* _sift_with_noise(proto, noise_scaling, noise[:, ii], ...), called without
\* a seed: the noise argument is replaced by a draw of a fresh generator,
\* scaled when noise_scaling is given (the first stage) and as drawn when it
\* is None (the loop), and proto + noise is sifted.
CesJob ==
    /\ pc = "ces_job"
    /\ batch.stage = "ens"
    /\ batch.ii < batch.nensembles
    /\ \E d \in Noises(Len(batch.X)) :
          LET noise == IF batch.inloop THEN d ELSE ScaledNoise(batch.X, d)
          IN /\ StartSift(VAdd(batch.proto, noise))
             /\ batch' = [batch EXCEPT !.half = "plus", !.drawn = noise,
                                       !.unseeded = TRUE, !.sifts = @ + 1]
    /\ UNCHANGED <<entry, cfg, err, ret>>

\* noise_mode 'single': the worker returns imf, which has one column.
CesJobReturn ==
    /\ pc = "sift"
    /\ entry = "complete_ensemble_sift"
    /\ batch.stage = "ens"
    /\ ~continue_sift
    /\ batch.noise_mode = "single"
    /\ batch' = [batch EXCEPT !.res = Append(@, imf[1]), !.ii = @ + 1,
                              !.half = "none"]
    /\ pc' = "ces_job"
    /\ UNCHANGED <<entry, X, cfg, layer, imf, sift_proto, continue_sift, gni_X,
                   proto_imf, niters, continue_flag, err, ret, hist>>

\* noise_mode 'flip': the second sift of the worker, sift(proto - noise).
CesFlipSecond ==
    /\ pc = "sift"
    /\ entry = "complete_ensemble_sift"
    /\ batch.stage = "ens"
    /\ ~continue_sift
    /\ batch.noise_mode = "flip"
    /\ batch.half = "plus"
    /\ StartSift(VSub(batch.proto, batch.drawn))
    /\ batch' = [batch EXCEPT !.half = "minus", !.first = imf,
                              !.sifts = @ + 1]
    /\ UNCHANGED <<entry, cfg, err, ret>>

\* x / k, rounded to the grid of the model.
VMean(x, k) == [i \in 1..Len(x) |-> RoundDiv(x[i], k)]

\* noise_mode 'flip': the worker returns (imf + second) / 2.
CesFlipReturn ==
    /\ pc = "sift"
    /\ entry = "complete_ensemble_sift"
    /\ batch.stage = "ens"
    /\ ~continue_sift
    /\ batch.noise_mode = "flip"
    /\ batch.half = "minus"
    /\ batch' = [batch EXCEPT
                    !.res = Append(@, VMean(VAdd(batch.first[1], imf[1]), 2)),
                    !.ii = @ + 1, !.half = "none"]
    /\ pc' = "ces_job"
    /\ UNCHANGED <<entry, X, cfg, layer, imf, sift_proto, continue_sift, gni_X,
                   proto_imf, niters, continue_flag, err, ret, hist>>

\* Any other noise_mode: the worker falls off its end and returns None.
CesJobReturnsNone ==
    /\ pc = "sift"
    /\ entry = "complete_ensemble_sift"
    /\ batch.stage = "ens"
    /\ ~continue_sift
    /\ batch.noise_mode \notin {"single", "flip"}
    /\ batch' = [batch EXCEPT !.res = Append(@, None), !.ii = @ + 1,
                              !.half = "none"]
    /\ pc' = "ces_job"
    /\ UNCHANGED <<entry, X, cfg, layer, imf, sift_proto, continue_sift, gni_X,
                   proto_imf, niters, continue_flag, err, ret, hist>>

\* np.array(res).mean(axis=0) over results that are None.
CesMeanError ==
    /\ pc = "ces_job"
    /\ batch.stage = "ens"
    /\ batch.ii = batch.nensembles
    /\ \E k \in 1..Len(batch.res) : batch.res[k] = None
    /\ Raise("TypeError")
    /\ UNCHANGED <<niters, hist>>

\* np.array(res).mean(axis=0)
EnsembleMean(res, n) ==
    VMean([i \in 1..n |-> SeqSum([k \in 1..Len(res) |-> res[k][i]])], Len(res))

\* The mean over the realizations is the first IMF, or is appended to imf;
\* then the argument list of the noise sifts, which the pool runs and which
\* finish in one of the orders the pool allows.
CesMean ==
    /\ pc = "ces_job"
    /\ batch.stage = "ens"
    /\ batch.ii = batch.nensembles
    /\ \A k \in 1..Len(batch.res) : batch.res[k] # None
    /\ \E order \in FinishOrders(batch.nensembles, batch.nprocesses) :
          LET next_imf == EnsembleMean(batch.res, Len(batch.X))
          IN batch' = [batch EXCEPT !.next_imf = next_imf,
                                    !.imf = Append(@, next_imf),
                                    !.order = order,
                                    !.stage = "noise", !.ii = 0, !.res = <<>>]
    /\ UNCHANGED <<entry, X, cfg, pc, layer, imf, sift_proto, continue_sift,
                   gni_X, proto_imf, niters, continue_flag, err, ret, hist>>

\* sift(noise[:, ii], sift_thresh, 1, imf_opts)
CesNoiseJob ==
    /\ pc = "ces_job"
    /\ batch.stage = "noise"
    /\ batch.ii < batch.nensembles
    /\ StartSift(batch.noise[Job + 1])
    /\ batch' = [batch EXCEPT !.sifts = @ + 1]
    /\ UNCHANGED <<entry, cfg, err, ret>>

\* The sift of a noise buffer returns: r[:, 0] is its first IMF, from the
\* buffer it was given.
CesNoiseReturn ==
    /\ pc = "sift"
    /\ entry = "complete_ensemble_sift"
    /\ batch.stage = "noise"
    /\ ~continue_sift
    /\ batch' = [batch EXCEPT
                    !.nres = Collect(@, [imf |-> imf[1], from |-> X,
                                        job |-> Job]),
                    !.ii = @ + 1]
    /\ pc' = "ces_job"
    /\ UNCHANGED <<entry, X, cfg, layer, imf, sift_proto, continue_sift, gni_X,
                   proto_imf, niters, continue_flag, err, ret, hist>>

\* np.abs(next_imf).mean() < sift_thresh
BelowMeanThresh(next_imf, sift_thresh) ==
    SumAbs(next_imf) < sift_thresh * Len(next_imf)

\* continue_sift at the end of the body of the loop of complete_ensemble_sift
CesContinue(cols, max_imfs, lay, next_imf, sift_thresh) ==
    /\ Len(find_extrema(cols[Len(cols)]).locs) >= 2
    /\ ~CapReached(max_imfs, lay)
    /\ ~BelowMeanThresh(next_imf, sift_thresh)

\* noise = noise - first IMFs. Before the loop this ends the first stage; in
\* the loop the three stopping tests follow, then layer += 1.
CesNoiseUpdate ==
    /\ pc = "ces_job"
    /\ batch.stage = "noise"
    /\ batch.ii = batch.nensembles
    /\ LET noise == [k \in 1..batch.nensembles |->
                        VSub(batch.noise[k], batch.nres[k].imf)]
       IN batch' =
             IF batch.inloop
             THEN [batch EXCEPT
                      !.noise = noise, !.nres = <<>>, !.stage = "loop",
                      !.go = CesContinue(batch.imf, cfg.max_imfs, batch.layer,
                                         batch.next_imf, cfg.sift_thresh),
                      !.layer = @ + 1]
             ELSE [batch EXCEPT !.noise = noise, !.nres = <<>>,
                                !.stage = "loop", !.inloop = TRUE]
    /\ UNCHANGED <<entry, X, cfg, pc, layer, imf, sift_proto, continue_sift,
                   gni_X, proto_imf, niters, continue_flag, err, ret, hist>>

\* while continue_sift: proto_imf = X - imf.sum(axis=1), and the argument
\* list of the realizations.
CesLoop ==
    /\ pc = "ces_job"
    /\ batch.stage = "loop"
    /\ batch.go
    /\ batch.layer < MaxLayers
    /\ batch' = [batch EXCEPT !.proto = Residual(batch.X, batch.imf),
                              !.stage = "ens", !.ii = 0]
    /\ UNCHANGED <<entry, X, cfg, pc, layer, imf, sift_proto, continue_sift,
                   gni_X, proto_imf, niters, continue_flag, err, ret, hist>>

\* The loop condition is false: return imf, noise.
CesReturn ==
    /\ pc = "ces_job"
    /\ batch.stage = "loop"
    /\ ~batch.go
    /\ pc' = "done"
    /\ ret' = Some([imf |-> batch.imf, noise |-> batch.noise])
    /\ UNCHANGED <<entry, batch, X, cfg, layer, imf, sift_proto, continue_sift,
                   gni_X, proto_imf, niters, continue_flag, err, hist>>

NextComplete ==
    \/ SiftCall
    \/ GniConvergeError
    \/ GniEnvelopeError
    \/ GniNoExtrema
    \/ GniUnboundStop
    \/ GniStop
    \/ GniContinue
    \/ SiftLayer
    \/ CesStart
    \/ CesJob
    \/ CesJobReturn
    \/ CesFlipSecond
    \/ CesFlipReturn
    \/ CesJobReturnsNone
    \/ CesMeanError
    \/ CesMean
    \/ CesNoiseJob
    \/ CesNoiseReturn
    \/ CesNoiseUpdate
    \/ CesLoop
    \/ CesReturn

SpecComplete == InitComplete /\ [][NextComplete]_vars

\* ====================================================================
\* get_padded_extrema and interp_envelope, step by step
\* ====================================================================
\* Samples of the signals the padder is called with.
PadLen == SigLen + 2

VAbs(a) == [i \in 1..Len(a) |-> Abs(a[i])]

PadModes == {"peaks", "troughs", "abs_peaks", "other"}
EnvModes == {"upper", "lower", "combined", "other"}
InterpMethods == {"splrep", "pchip", "cubic"}

\* The calls of get_padded_extrema the model makes: X, pad_width, mode.
PadInputs ==
    ([1..PadLen -> {0, Unit}] \cup {Mixed, VNeg(Mixed), VNeg(Alternating)})
        \X (0..MaxPad) \X PadModes

\* The calls of interp_envelope the model makes: X, pad_width, mode,
\* interp_method.
EnvelopeInputs ==
    ([1..SigLen -> {0, Unit}] \cup {Mixed, VNeg(Mixed), Uneven})
        \X (0..MaxPad) \X EnvModes \X InterpMethods

\* The locals of get_padded_extrema: out is what it returned to
\* interp_envelope, rounds the number of passes through the re-padding loop.
PadLocals(mode, w) ==
    [kind |-> "pad", mode |-> mode, w |-> w, locs |-> <<>>, mags |-> <<>>,
     rounds |-> 0, out |-> None]

InitEnvelope ==
    /\ \/ /\ entry = "get_padded_extrema"
          /\ pc = "pad"
          /\ \E in \in PadInputs :
                /\ X = in[1]
                /\ cfg = [Default EXCEPT !.pad_width = in[2]]
                /\ batch = PadLocals(in[3], in[2])
       \/ /\ entry = "interp_envelope"
          /\ pc = "env"
          /\ \E in \in EnvelopeInputs :
                /\ X = in[1]
                /\ cfg = [Default EXCEPT !.pad_width = in[2],
                                         !.interp_method = in[4]]
                /\ batch = PadLocals(in[3], in[2])
    /\ InitLocals

\* interp_method is not one of 'splrep', 'mono_pchip', 'pchip'.
EnvBadMethod ==
    /\ pc = "env"
    /\ cfg.interp_method \notin {"splrep", "mono_pchip", "pchip"}
    /\ Raise("ValueError")
    /\ UNCHANGED <<niters, hist>>

\* mode is not one of 'upper', 'lower', 'combined'.
EnvBadMode ==
    /\ pc = "env"
    /\ cfg.interp_method \in {"splrep", "mono_pchip", "pchip"}
    /\ batch.mode \notin {"upper", "lower", "combined"}
    /\ Raise("ValueError")
    /\ UNCHANGED <<niters, hist>>

\* locs, pks = get_padded_extrema(X, mode=..., **extrema_opts)
EnvCall ==
    /\ pc = "env"
    /\ cfg.interp_method \in {"splrep", "mono_pchip", "pchip"}
    /\ batch.mode \in {"upper", "lower", "combined"}
    /\ batch' = [batch EXCEPT
                    !.mode = IF batch.mode = "upper" THEN "peaks"
                             ELSE IF batch.mode = "lower" THEN "troughs"
                             ELSE "abs_peaks"]
    /\ pc' = "pad"
    /\ UNCHANGED <<entry, X, cfg, layer, imf, sift_proto, continue_sift, gni_X,
                   proto_imf, niters, continue_flag, err, ret, hist>>

\* get_padded_extrema: mode is not 'peaks', 'troughs' or 'abs_peaks'.
PadBadMode ==
    /\ pc = "pad"
    /\ batch.mode \notin {"peaks", "troughs", "abs_peaks"}
    /\ Raise("ValueError")
    /\ UNCHANGED <<niters, hist>>

\* The extrema get_padded_extrema finds under each mode.
Found(x, mode) ==
    IF mode = "peaks" THEN find_extrema(x)
    ELSE IF mode = "troughs"
    THEN LET f == find_extrema(VNeg(x))
         IN [locs |-> f.locs, mags |-> VNeg(f.mags)]
    ELSE find_extrema(VAbs(x))

\* if max_locs.size < pad_width: pad_width = max_locs.size
ClampedWidth(size, pad_width) == IF size < pad_width THEN size ELSE pad_width

\* get_padded_extrema returns out: to its caller interp_envelope, or as the
\* result of the call.
PadReturns(out) ==
    /\ batch' = [batch EXCEPT !.out = out]
    /\ IF entry = "get_padded_extrema"
       THEN pc' = "done" /\ ret' = Some(out)
       ELSE pc' = "env_interp" /\ ret' = ret
    /\ UNCHANGED <<entry, X, cfg, layer, imf, sift_proto, continue_sift, gni_X,
                   proto_imf, niters, continue_flag, err, hist>>

\* Fewer than 2 extrema: return None, None.
PadNone ==
    /\ pc = "pad"
    /\ batch.mode \in {"peaks", "troughs", "abs_peaks"}
    /\ Len(Found(X, batch.mode).locs) <= 1
    /\ PadReturns(None)

\* pad_width is 0: the extrema are returned as found.
PadUnpadded ==
    /\ pc = "pad"
    /\ batch.mode \in {"peaks", "troughs", "abs_peaks"}
    /\ LET found == Found(X, batch.mode)
       IN /\ Len(found.locs) >= 2
          /\ ClampedWidth(Len(found.locs), batch.w) = 0
          /\ PadReturns(Some(found))

\* The first padding of the locations and of the magnitudes.
PadFirst ==
    /\ pc = "pad"
    /\ batch.mode \in {"peaks", "troughs", "abs_peaks"}
    /\ LET found == Found(X, batch.mode)
           w == ClampedWidth(Len(found.locs), batch.w)
       IN /\ Len(found.locs) >= 2
          /\ w # 0
          /\ batch' = [batch EXCEPT !.w = w,
                                    !.locs = PadReflectOdd(found.locs, w),
                                    !.mags = PadMedian1(found.mags, w)]
    /\ pc' = "pad_loop"
    /\ UNCHANGED <<entry, X, cfg, layer, imf, sift_proto, continue_sift, gni_X,
                   proto_imf, niters, continue_flag, err, ret, hist>>

\* The loop condition holds: pad the padded arrays again.
PadAgain ==
    /\ pc = "pad_loop"
    /\ PadShort(batch.locs, Len(X))
    /\ batch' = [batch EXCEPT !.locs = PadReflectOdd(@, batch.w),
                              !.mags = PadMedian1(@, batch.w),
                              !.rounds = @ + 1]
    /\ UNCHANGED <<entry, X, cfg, pc, layer, imf, sift_proto, continue_sift,
                   gni_X, proto_imf, niters, continue_flag, err, ret, hist>>

\* The loop condition is false: return the padded arrays.
PadReturn ==
    /\ pc = "pad_loop"
    /\ ~PadShort(batch.locs, Len(X))
    /\ PadReturns(Some([locs |-> batch.locs, mags |-> batch.mags]))

\* if locs is None: return None
EnvNone ==
    /\ pc = "env_interp"
    /\ batch.out = None
    /\ pc' = "done"
    /\ ret' = Some([kind |-> "None"])
    /\ UNCHANGED <<entry, batch, X, cfg, layer, imf, sift_proto, continue_sift,
                   gni_X, proto_imf, niters, continue_flag, err, hist>>

EnvSplrepError ==
    /\ pc = "env_interp"
    /\ batch.out # None
    /\ SplrepFails(cfg.interp_method, batch.out[1].locs)
    /\ Raise("TypeError")
    /\ UNCHANGED <<niters, hist>>

\* env.shape[0] != X.shape[0]
EnvLengthError ==
    /\ pc = "env_interp"
    /\ batch.out # None
    /\ ~SplrepFails(cfg.interp_method, batch.out[1].locs)
    /\ KeptLength(batch.out[1].locs, Len(X)) # Len(X)
    /\ Raise("ValueError")
    /\ UNCHANGED <<niters, hist>>

\* env = env[tinds]; return env
EnvReturn ==
    /\ pc = "env_interp"
    /\ batch.out # None
    /\ ~SplrepFails(cfg.interp_method, batch.out[1].locs)
    /\ KeptLength(batch.out[1].locs, Len(X)) = Len(X)
    /\ LET locs == batch.out[1].locs
       IN \E e \in InterpolantsOn(locs, batch.out[1].mags, Max2(locs[1], 0),
                                  Min2(locs[Len(locs)] - 1, Len(X) - 1)) :
             ret' = Some([kind |-> "env", env |-> e])
    /\ pc' = "done"
    /\ UNCHANGED <<entry, batch, X, cfg, layer, imf, sift_proto, continue_sift,
                   gni_X, proto_imf, niters, continue_flag, err, hist>>

NextEnvelope ==
    \/ EnvBadMethod
    \/ EnvBadMode
    \/ EnvCall
    \/ PadBadMode
    \/ PadNone
    \/ PadUnpadded
    \/ PadFirst
    \/ PadAgain
    \/ PadReturn
    \/ EnvNone
    \/ EnvSplrepError
    \/ EnvLengthError
    \/ EnvReturn

SpecEnvelope == InitEnvelope /\ [][NextEnvelope]_vars

\* Every call runs on: a step is taken whenever one is possible.
SpecEnvelopeFair == SpecEnvelope /\ WF_vars(NextEnvelope)

\* ====================================================================
\* The batches the pools run on more than one process
\* ====================================================================
\* Calls whose batches finish in every order: mask_sift with two phases on a
\* sequence of two mask frequencies, and complete_ensemble_sift with two
\* realizations, each on one and on two processes.
InitBatches ==
    /\ \E nprocesses \in {1, 2} :
          \/ /\ entry = "mask_sift"
             /\ X \in {Alternating, Mixed}
             /\ cfg = [Default EXCEPT !.max_imfs = Some(1)]
             /\ batch = MaskLocals(
                            [MaskDefault EXCEPT
                                !.mask_freqs = [kind |-> "seq",
                                                v |-> <<(<<1, 4>>), (<<1, 8>>)>>]],
                            Some(1), nprocesses)
             /\ pc = "mask"
          \/ /\ entry = "complete_ensemble_sift"
             /\ X = Alternating
             /\ cfg = [Default EXCEPT !.max_imfs = Some(0)]
             /\ batch = CompleteLocals(<<Alternating, cfg, 2, "single", None,
                                         nprocesses>>)
             /\ pc = "ces"
    /\ InitLocals

NextBatches ==
    \/ MaskFrontSequence
    \/ MaskCall
    \/ MaskPhaseCall
    \/ MaskPhaseReturn
    \/ MaskLayer
    \/ MaskReturn
    \/ CesStart
    \/ CesJob
    \/ CesJobReturn
    \/ CesMean
    \/ CesNoiseJob
    \/ CesNoiseReturn
    \/ CesNoiseUpdate
    \/ CesLoop
    \/ CesReturn
    \/ SiftCall
    \/ SiftLayer
    \/ GniNoExtrema
    \/ GniStop
    \/ GniContinue

SpecBatches == InitBatches /\ [][NextBatches]_vars

\* ====================================================================
\* sift_second_layer and mask_sift_second_layer
\* ====================================================================
\* IA: one to MaxCols first-layer columns.
Arrays ==
    UNION {[1..c -> {Zero(SigLen), Alternating, Mixed}] : c \in 1..MaxCols}

\* A sift_args dictionary, key by key: None stands for a key the dictionary
\* does not hold, Some(v) for the key with value v.
NoArgs == [max_imfs |-> None, mask_freqs |-> None, nphases |-> None]

\* The dictionaries the callers pass: empty but for nphases, with max_imfs,
\* and with a mask_freqs of their own.
SiftArgs ==
    {[NoArgs EXCEPT !.max_imfs = k] : k \in MaxImfsChoices}

MaskSiftArgs ==
    {[NoArgs EXCEPT !.nphases = Some(2), !.max_imfs = k] :
        k \in {None} \cup {Some(j) : j \in 0..MaxCols}}
    \cup {[NoArgs EXCEPT !.nphases = Some(2),
                         !.mask_freqs = Some(<<(<<1, 4>>)>>)]}

\* The mask_freqs argument of mask_sift_second_layer: a sequence of mask
\* frequencies.
SecondMaskFreqs == {<<(<<1, 4>>)>>, <<(<<1, 4>>), (<<1, 8>>)>>}

\* The locals of a second-layer sift on entry. passed says whether the
\* caller gave a dictionary; sift_args is the dictionary the local name is
\* bound to, which is the caller's own object when one was passed; before is
\* what the caller's dictionary held at the call. sifted lists the columns
\* the sift function was applied to and results what it returned.
SecondLocals(IA, passed, args) ==
    [kind |-> "second", IA |-> IA, mask_freqs |-> <<>>, passed |-> passed,
     sift_args |-> args,
     before |-> args, max_imfs |-> 0, ii |-> 0, imf2 |-> <<>>,
     sifted |-> <<>>, results |-> <<>>]

InitSecond ==
    /\ \E IA \in Arrays, passed \in BOOLEAN :
          \/ /\ entry = "sift_second_layer"
             /\ \E args \in SiftArgs :
                   /\ ~passed => args = NoArgs
                   /\ batch = SecondLocals(IA, passed, args)
             /\ pc = "sl2"
          \/ /\ entry = "mask_sift_second_layer"
             /\ \E args \in MaskSiftArgs \cup {NoArgs},
                   mask_freqs \in SecondMaskFreqs :
                   /\ passed <=> args # NoArgs
                   /\ batch = [MaskLocals(MaskDefault, None, 1) EXCEPT
                                  !.outer = [SecondLocals(IA, passed, args)
                                                EXCEPT !.mask_freqs = mask_freqs]]
             /\ pc = "msl2"
          /\ X = IA[1]
    /\ cfg = Default
    /\ InitLocals

\* imf2 = np.zeros((IA.shape[0], IA.shape[1], max_imfs)), column by column.
Zeros(IA, max_imfs) ==
    [k \in 1..Len(IA) |-> [j \in 1..max_imfs |-> Zero(Len(IA[1]))]]

\* sift_second_layer: max_imfs is IA.shape[1] when sift_args is None or has
\* no max_imfs, and sift_args['max_imfs'] otherwise; then imf2.
Sl2Start ==
    /\ pc = "sl2"
    /\ LET b == batch
           max_imfs == IF ~b.passed \/ b.sift_args.max_imfs = None
                       THEN Len(b.IA) ELSE b.sift_args.max_imfs[1]
       IN batch' = [b EXCEPT !.max_imfs = max_imfs,
                             !.imf2 = Zeros(b.IA, max_imfs)]
    /\ cfg' = [Default EXCEPT !.max_imfs = batch.sift_args.max_imfs]
    /\ pc' = "sl2_loop"
    /\ UNCHANGED <<entry, X, layer, imf, sift_proto, continue_sift, gni_X,
                   proto_imf, niters, continue_flag, err, ret, hist>>

\* for ii in range(max_imfs): IA[:, ii] for a column IA does not have.
Sl2IndexError ==
    /\ pc = "sl2_loop"
    /\ batch.ii < batch.max_imfs
    /\ batch.ii >= Len(batch.IA)
    /\ Raise("IndexError")
    /\ UNCHANGED <<niters, hist>>

\* sift_func(IA[:, ii], **sift_args) with sift_args None.
Sl2NoneError ==
    /\ pc = "sl2_loop"
    /\ batch.ii < batch.max_imfs
    /\ batch.ii < Len(batch.IA)
    /\ ~batch.passed
    /\ Raise("TypeError")
    /\ UNCHANGED <<niters, hist>>

\* tmp = sift_func(IA[:, ii], **sift_args): sift is called.
Sl2Sift ==
    /\ pc = "sl2_loop"
    /\ batch.ii < batch.max_imfs
    /\ batch.ii < Len(batch.IA)
    /\ batch.passed
    /\ StartSift(batch.IA[batch.ii + 1])
    /\ batch' = [batch EXCEPT !.sifted = Append(@, batch.ii)]
    /\ UNCHANGED <<entry, cfg, err, ret>>

\* imf2[:, ii, :tmp.shape[1]] = tmp assigns: tmp has no more columns than the
\* slice, or it has one, which numpy broadcasts along the slice.
Storable(tmp, max_imfs) == Len(tmp) <= max_imfs \/ Len(tmp) = 1

\* imf2[:, ii, :tmp.shape[1]] = tmp
Stored(imf2, ii, tmp) ==
    [imf2 EXCEPT ![ii + 1] =
        [j \in 1..Len(@) |->
            IF j <= Len(tmp) THEN tmp[j]
            ELSE IF Len(tmp) = 1 /\ j <= 1 THEN tmp[1] ELSE @[j]]]

\* sift returned tmp, which is stored.
Sl2Store ==
    /\ pc = "sift"
    /\ entry = "sift_second_layer"
    /\ ~continue_sift
    /\ Storable(imf, batch.max_imfs)
    /\ batch' = [batch EXCEPT
                    !.imf2 = Stored(@, batch.ii, imf),
                    !.results = Append(@, imf),
                    !.ii = @ + 1]
    /\ pc' = "sl2_loop"
    /\ UNCHANGED <<entry, X, cfg, layer, imf, sift_proto, continue_sift, gni_X,
                   proto_imf, niters, continue_flag, err, ret, hist>>

\* sift returned more columns than imf2 has room for.
Sl2StoreError ==
    /\ pc = "sift"
    /\ entry = "sift_second_layer"
    /\ ~continue_sift
    /\ ~Storable(imf, batch.max_imfs)
    /\ Raise("ValueError")
    /\ UNCHANGED <<niters, hist>>

\* The loop is over: return imf2.
Sl2Return ==
    /\ pc = "sl2_loop"
    /\ batch.ii = batch.max_imfs
    /\ pc' = "done"
    /\ ret' = Some(batch.imf2)
    /\ UNCHANGED <<entry, batch, X, cfg, layer, imf, sift_proto, continue_sift,
                   gni_X, proto_imf, niters, continue_flag, err, hist>>

\* mask_sift_second_layer: sift_args None is replaced by a new dictionary
\* with max_imfs; a dictionary without max_imfs is given the key; then imf2.
Msl2Start ==
    /\ pc = "msl2"
    /\ LET o == batch.outer
           args == IF ~o.passed THEN [NoArgs EXCEPT !.max_imfs = Some(Len(o.IA))]
                   ELSE IF o.sift_args.max_imfs = None
                   THEN [o.sift_args EXCEPT !.max_imfs = Some(Len(o.IA))]
                   ELSE o.sift_args
       IN /\ batch' = [batch EXCEPT
                          !.outer = [o EXCEPT
                                        !.sift_args = args,
                                        !.max_imfs = args.max_imfs[1],
                                        !.imf2 = Zeros(o.IA, args.max_imfs[1])]]
          /\ cfg' = [Default EXCEPT !.max_imfs = args.max_imfs]
    /\ pc' = "msl2_loop"
    /\ UNCHANGED <<entry, X, layer, imf, sift_proto, continue_sift, gni_X,
                   proto_imf, niters, continue_flag, err, ret, hist>>

\* for ii in range(IA.shape[1]): sift_args['mask_freqs'] = mask_freqs[ii:],
\* then mask_sift(IA[:, ii], **sift_args) is called; nphases is 4 unless
\* sift_args names it.
Msl2Call ==
    /\ pc = "msl2_loop"
    /\ batch.outer.ii < Len(batch.outer.IA)
    /\ LET o == batch.outer
           freqs == SubSeq(o.mask_freqs, o.ii + 1, Len(o.mask_freqs))
           args == [o.sift_args EXCEPT !.mask_freqs = Some(freqs)]
           a == [MaskDefault EXCEPT
                    !.mask_freqs = [kind |-> "seq", v |-> freqs],
                    !.nphases = IF args.nphases = None THEN 4
                                ELSE args.nphases[1]]
       IN batch' = [MaskLocals(a, args.max_imfs, 1) EXCEPT
                       !.outer = [o EXCEPT !.sift_args = args,
                                           !.sifted = Append(@, o.ii)]]
    /\ X' = batch.outer.IA[batch.outer.ii + 1]
    /\ sift_proto' = batch.outer.IA[batch.outer.ii + 1]
    /\ layer' = 0
    /\ imf' = <<>>
    /\ continue_sift' = TRUE
    /\ gni_X' = <<>>
    /\ proto_imf' = <<>>
    /\ niters' = 0
    /\ continue_flag' = TRUE
    /\ hist' = NoHist
    /\ pc' = "mask"
    /\ UNCHANGED <<entry, cfg, err, ret>>

\* mask_sift returned tmp, which is stored (on the inputs of the model
\* mask_sift never returns more columns than imf2 has room for).
Msl2Store ==
    /\ pc = "mask_loop"
    /\ entry = "mask_sift_second_layer"
    /\ ~continue_sift
    /\ Storable(imf, batch.outer.max_imfs)
    /\ batch' = [batch EXCEPT
                    !.outer = [@ EXCEPT
                                  !.imf2 = Stored(@, batch.outer.ii, imf),
                                  !.results = Append(@, imf),
                                  !.ii = @ + 1]]
    /\ pc' = "msl2_loop"
    /\ UNCHANGED <<entry, X, cfg, layer, imf, sift_proto, continue_sift, gni_X,
                   proto_imf, niters, continue_flag, err, ret, hist>>

\* The loop is over: return imf2.
Msl2Return ==
    /\ pc = "msl2_loop"
    /\ batch.outer.ii = Len(batch.outer.IA)
    /\ pc' = "done"
    /\ ret' = Some(batch.outer.imf2)
    /\ UNCHANGED <<entry, batch, X, cfg, layer, imf, sift_proto, continue_sift,
                   gni_X, proto_imf, niters, continue_flag, err, hist>>

NextSecond ==
    \/ Sl2Start
    \/ Sl2IndexError
    \/ Sl2NoneError
    \/ Sl2Sift
    \/ Sl2Store
    \/ Sl2StoreError
    \/ Sl2Return
    \/ Msl2Start
    \/ Msl2Call
    \/ Msl2Store
    \/ Msl2Return
    \/ SiftCall
    \/ SiftLayer
    \/ MaskFrontSequence
    \/ MaskCall
    \/ MaskCallError
    \/ MaskPhaseCall
    \/ MaskPhaseReturn
    \/ MaskLayer
    \/ GniNoExtrema
    \/ GniStop
    \/ GniContinue

SpecSecond == InitSecond /\ [][NextSecond]_vars

\* ====================================================================
\* The three drivers together
\* ====================================================================
InitDrivers ==
    \/ /\ entry = "sift"
       /\ batch = NoBatch
       /\ \E i \in DriverInputs : X = i[1] /\ cfg = i[2]
       /\ pc = "sift"
       /\ InitLocals
    \/ InitEnsemble
    \/ InitMask

\* Every action of sift, ensemble_sift and mask_sift, each once.
NextDrivers ==
    \/ Next
    \/ EnsRejectNoiseMode
    \/ EnsStart
    \/ EnsJob
    \/ EnsJobReturn
    \/ EnsFlipSecond
    \/ EnsFlipReturn
    \/ EnsFlipMismatch
    \/ EnsConsensus
    \/ EnsConsensusError
    \/ MaskFrontSequence
    \/ MaskFrontSequenceNone
    \/ MaskFrontFloat
    \/ MaskFrontFloatError
    \/ MaskFirstImfCall
    \/ MaskFirstImfReturn
    \/ MaskFirstImfNone
    \/ MaskFrontOther
    \/ MaskCall
    \/ MaskCallError
    \/ MaskPhaseCall
    \/ MaskPhaseReturn
    \/ MaskLayer
    \/ MaskReturn

SpecDrivers == InitDrivers /\ [][NextDrivers]_vars

\* ====================================================================
\* Properties of the classic sift and of get_next_imf (under Spec)
\* ====================================================================
FewExtrema(x) == ~BothEnvelopes(x)

\* C1: in sift the working residual always equals the input X minus the sum
\* of the IMFs emitted so far; it is what the next extraction receives; and at
\* return the emitted IMFs plus the final residual add up to X.
C1_ResidualReconstructsInput ==
    entry = "sift" =>
        /\ VAdd(ColSum(imf, Len(X)), sift_proto) = X
        /\ (pc = "gni" => gni_X = sift_proto)
        /\ (ret # None => VAdd(ColSum(ret[1], Len(X)), sift_proto) = X)

\* A sift that returned at least two layers, the first of them not zero.
C1_Witness ==
    /\ entry = "sift"
    /\ pc = "done"
    /\ Len(ret[1]) >= 2
    /\ ret[1][1] # Zero(Len(X))
    /\ ret[1][2] # Zero(Len(X))

\* C2: for every max_imfs that is not None, sift returns no more than
\* max_imfs IMF columns.
C2_AtMostMaxImfsColumns ==
    (entry = "sift" /\ ret # None /\ cfg.max_imfs # None)
        => Len(ret[1]) <= cfg.max_imfs[1]

\* C3: after each layer sift goes on to another layer if and only if the
\* refiner returned continue_flag True, the number of layers extracted has
\* not reached max_imfs, and the sum of absolute values of the layer just
\* extracted is not below sift_thresh.
C3_GoesOnIffAllThree ==
    (entry = "sift" /\ pc = "sift" /\ layer > 0)
        => (continue_sift <=>
               /\ continue_flag
               /\ (cfg.max_imfs = None \/ layer < cfg.max_imfs[1])
               /\ SumAbs(hist.last_imf) >= cfg.sift_thresh)

\* C4: under stop_method 'sd' or 'rilling' one call of get_next_imf never
\* executes more than max_iters refinement iterations (stated for the
\* documented max_iters > 0).
C4_AtMostMaxItersIterations ==
    (cfg.stop_method \in {"sd", "rilling"} /\ cfg.max_iters >= 1)
        => hist.nsub <= cfg.max_iters

\* C5: a convergence error raised inside any single-IMF refinement aborts
\* the whole decomposition: nothing is returned, sift hands out no partial
\* IMF collection, and ensemble_sift and get_next_imf_mask fail as a whole:
\* whenever they go on, every realization and every phase has contributed
\* its result.
C5_ConvergenceErrorAbortsAll ==
    /\ err = "EMDSiftCovergeError" => (pc = "raised" /\ ret = None)
    /\ ret # None => err = "none"
    /\ (entry = "ensemble_sift" /\ ret # None)
          => Len(batch.res) = batch.nensembles
    /\ (entry = "mask_sift" /\ pc = "mask_loop" /\ layer > 0)
          => (err = "none" /\ Len(batch.res) = batch.nphases)

\* An ensemble whose second realization raised the convergence error after
\* the first one had returned its IMFs.
C5_Witness ==
    /\ entry = "ensemble_sift"
    /\ err = "EMDSiftCovergeError"
    /\ pc = "raised"
    /\ Len(batch.res) = 1
    /\ batch.ii = 1

\* C6: with stop_method 'fixed' and max_iters >= 1, as long as both
\* envelopes exist get_next_imf is still refining before iteration max_iters,
\* has returned after it with exactly max_iters iterations done, and never
\* raises the convergence error.
C6_FixedReturnsAfterMaxIters ==
    (cfg.stop_method = "fixed" /\ cfg.max_iters >= 1)
        => /\ err # "EMDSiftCovergeError"
           /\ (pc = "gni" => niters < cfg.max_iters /\ hist.nsub = niters)
           /\ (hist.nsub = cfg.max_iters => pc # "gni" /\ hist.exit = "criterion")
           /\ (hist.exit = "criterion"
                  => niters = cfg.max_iters /\ hist.nsub = cfg.max_iters)

\* A 'fixed' refinement that returned after 2 = max_iters iterations.
C6_Witness ==
    /\ cfg.stop_method = "fixed"
    /\ cfg.max_iters = 2
    /\ pc = "gni_exit"
    /\ hist.exit = "criterion"
    /\ hist.nsub = 2

\* What C7 says of runs whose options satisfy opts.
C7_Body(opts) ==
    /\ (opts /\ hist.nenv > 0 /\ FewExtrema(hist.iter_start))
          => /\ get_padded_extrema(hist.iter_start, cfg.pad_width, "peaks") = None
                \/ get_padded_extrema(hist.iter_start, cfg.pad_width, "troughs") = None
             /\ [kind |-> "None"] \in
                   interp_envelope(hist.iter_start, "upper", cfg.pad_width,
                                   cfg.interp_method)
                   \cup interp_envelope(hist.iter_start, "lower", cfg.pad_width,
                                        cfg.interp_method)
             /\ err = "none"
             /\ hist.exit = "no_extrema"
             /\ ~continue_flag
             /\ proto_imf = hist.iter_start
             /\ pc # "gni"
    /\ (opts /\ entry = "sift" /\ hist.no_extrema)
          => /\ pc \in {"gni_exit", "sift", "done"}
             /\ (pc = "sift" => /\ ~continue_sift
                                /\ imf = Append(hist.prev_imf, proto_imf))
             /\ (pc = "done" => ret = Some(Append(hist.prev_imf, proto_imf)))

\* C7 as written: if at any refinement iteration the proto-IMF has fewer than
\* 2 peaks or fewer than 2 troughs, get_padded_extrema returns None,
\* interp_envelope returns None, get_next_imf ends without raising with
\* continue_flag False and the proto-IMF as it stood at the start of that
\* iteration, and sift attempts no further layer and returns every previously
\* emitted IMF unchanged.
C7_FewExtremaEndsQuietly == C7_Body(TRUE)

\* C7 amended: the same for pad_width >= 1.  (With pad_width = 0 the envelope
\* of the side that does have 2 extrema raises before the None test.)
C7_FewExtremaEndsQuietlyPadded == C7_Body(cfg.pad_width >= 1)

\* A sift with pad_width >= 1 whose second layer ended for lack of extrema
\* and which returned both layers.
C7_Witness ==
    /\ entry = "sift"
    /\ cfg.pad_width >= 1
    /\ pc = "done"
    /\ hist.no_extrema
    /\ hist.exit = "no_extrema"
    /\ Len(ret[1]) = 2
    /\ FewExtrema(hist.iter_start)

\* C8: for a constant input the extrema detector finds nothing, the refiner
\* stops for lack of extrema on its first iteration, and sift returns exactly
\* one column, equal to the input (max_iters in its documented range, so
\* that the loop head lets the first iteration start).
C8_ConstantInputReturnedUnchanged ==
    (entry = "sift" /\ IsConstant(X) /\ cfg.max_iters >= 0)
        => /\ find_extrema(X).locs = <<>>
           /\ find_extrema(VNeg(X)).locs = <<>>
           /\ err = "none"
           /\ niters <= 1
           /\ layer <= 1
           /\ (pc = "gni_exit" => hist.exit = "no_extrema" /\ niters = 1)
           /\ (pc = "done" => ret = Some(<<X>>))

\* A sift of a constant input that is not zero has returned.
C8_Witness ==
    /\ entry = "sift"
    /\ IsConstant(X)
    /\ X[1] # 0
    /\ pc = "done"
    /\ ret = Some(<<X>>)

\* C9: get_next_imf called with a stop_method other than 'sd', 'rilling' or
\* 'fixed' fails before any envelope is computed and never returns a result.
C9_UnknownStopMethodRejected ==
    cfg.stop_method \notin {"sd", "rilling", "fixed"}
        => /\ hist.nenv = 0
           /\ pc \notin {"gni_exit", "done"}
           /\ ret = None

\* A frequency outside the open interval (0, 0.5).
OutOfRange(z) == ~FracLess(<<0, 1>>, z) \/ ~FracLess(z, Half)

\* C10: mask_sift rejects every mask frequency outside (0, 0.5), given as a
\* single number or as an element of a sequence, with ValueError before any
\* IMF is extracted: no get_next_imf call is made, nothing is returned, and
\* the only exception is ValueError (max_imfs a number, as documented).
C10_MaskFreqOutOfRangeRejected ==
    (/\ entry = "mask_sift"
     /\ cfg.max_imfs # None
     /\ \E k \in 1..Len(batch.given.v) : OutOfRange(batch.given.v[k]))
        => /\ batch.calls = 0
           /\ imf = <<>>
           /\ ret = None
           /\ pc = "raised" => err = "ValueError"

\* C11 (as claimed, for complete_ensemble_sift): a noise_mode other than
\* 'single' or 'flip' is rejected with ValueError before any realization is
\* sifted: no sift is started, and the only exception is ValueError.
C11_CompleteRejectsNoiseMode ==
    (/\ entry = "complete_ensemble_sift"
     /\ batch.noise_mode \notin {"single", "flip"})
        => /\ batch.sifts = 0
           /\ pc = "raised" => err = "ValueError"

\* C12 (as claimed): once every realization of ensemble_sift has returned,
\* whatever their IMF counts and whatever max_imfs, the consensus step raises
\* no error.
C12_ConsensusNeverRaises ==
    (/\ entry = "ensemble_sift"
     /\ batch.nensembles >= 1
     /\ Len(batch.res) = batch.nensembles)
        => pc # "raised"

\* C13 (as claimed, for max_imfs None): the result of ensemble_sift has
\* exactly as many layers as the most frequent per-realization IMF count
\* (the smallest on a tie), and layer k is the mean of layer k over exactly
\* the realizations with that count.
C13_ConsensusHasTargetLayers ==
    (/\ entry = "ensemble_sift"
     /\ cfg.max_imfs = None
     /\ pc = "done")
        => LET target == TargetImfs(Nimfs(batch.res))
               kept == {j \in 1..Len(batch.res) : Len(batch.res[j].cols) = target}
           IN /\ Len(ret[1].num) = target
              /\ ret[1].den = batch.res[1].den * Cardinality(kept)
              /\ \A k \in 1..target : \A i \in 1..Len(batch.X) :
                    ret[1].num[k][i] =
                       SeqSum([j \in 1..Len(batch.res) |->
                                  IF j \in kept THEN batch.res[j].cols[k][i]
                                  ELSE 0])

\* C14: given a seed that is not None, realization i of ensemble_sift always
\* receives the seed derived from the top-level seed and i, and sifts X plus
\* (in 'flip' mode then X minus) the noise that seed determines; the results
\* reach the consensus step in the order of the realizations, for every
\* nprocesses and every order in which the workers finish, and the value
\* returned is the consensus of those results.
C14_SeedFixesRealizations ==
    (/\ entry = "ensemble_sift"
     /\ batch.seed # None
     /\ batch.noise_mode \in {"single", "flip"}
     /\ pc # "ens")
        => /\ \A k \in 1..batch.nensembles :
                 batch.seedgen[k] = SeedGen(batch.seed[1], k - 1)
           /\ batch.half # "none"
                 => LET noise == ScaledNoise(batch.X,
                                    Draw(SeedGen(batch.seed[1], Job), Len(batch.X)))
                    IN X = IF batch.half = "plus" THEN VAdd(batch.X, noise)
                           ELSE VSub(batch.X, noise)
           /\ \A k \in 1..Len(batch.res) : \A l \in 1..Len(batch.res) :
                 k < l => batch.res[k].job < batch.res[l].job
           /\ pc = "done"
                 => /\ \A k \in 1..batch.nensembles : batch.res[k].job = k - 1
                    /\ ret = Some(Consensus(batch.res, cfg.max_imfs))

\* A seeded run on two processes whose second job finished first has
\* returned.
C14_Witness ==
    /\ entry = "ensemble_sift"
    /\ batch.seed # None
    /\ batch.nprocesses = 2
    /\ batch.order = <<1, 0>>
    /\ pc = "done"

\* C15 (as claimed): given a seed that is not None, every noise realization
\* of complete_ensemble_sift is derived from that seed: no noise is drawn
\* from a generator that was not seeded from it.
C15_CompleteSeedFixesNoise ==
    (/\ entry = "complete_ensemble_sift"
     /\ batch.seed # None)
        => ~batch.unseeded

\* C16 (as claimed): for every max_imfs that is not None,
\* complete_ensemble_sift returns no more than max_imfs IMF columns.
C16_CompleteAtMostMaxImfs ==
    (/\ entry = "complete_ensemble_sift"
     /\ cfg.max_imfs # None
     /\ pc = "done")
        => Len(ret[1].imf) <= cfg.max_imfs[1]

\* C17 (as claimed): in every layer of complete_ensemble_sift, the signal
\* sifted for realization i is the current residual plus realization i's
\* current noise buffer, and nothing else.
C17_CompleteSiftsResidualPlusBuffer ==
    (/\ entry = "complete_ensemble_sift"
     /\ batch.stage = "ens"
     /\ batch.half = "plus")
        => X = VAdd(batch.proto, batch.noise[batch.ii + 1])

\* C18: whenever get_padded_extrema returns a padded set (at least 2 extrema
\* and pad_width >= 1), the smallest padded location is below 0 and the
\* largest is at least N.
C18_PaddedSetSpansSignal ==
    (/\ entry = "get_padded_extrema"
     /\ pc = "done"
     /\ ret[1] # None
     /\ cfg.pad_width >= 1)
        => /\ SeqMin(ret[1][1].locs) < 0
           /\ SeqMax(ret[1][1].locs) >= Len(X)

\* A padded set was returned after the loop padded again.
C18_Witness ==
    /\ entry = "get_padded_extrema"
    /\ pc = "done"
    /\ ret[1] # None
    /\ cfg.pad_width >= 1
    /\ batch.rounds >= 1

\* Every round of the re-padding loop strictly lowers the smallest and
\* strictly raises the largest padded location.
EachRoundWidens ==
    [][(pc = "pad_loop" /\ pc' = "pad_loop")
          => /\ SeqMin(batch'.locs) < SeqMin(batch.locs)
             /\ SeqMax(batch'.locs) > SeqMax(batch.locs)]_vars

\* C19: for every signal with at least 2 detected extrema and every
\* pad_width >= 1, under the default odd-reflection padding, every round of
\* the re-padding loop strictly lowers the smallest and strictly raises the
\* largest padded location, and the loop ends after finitely many rounds:
\* get_padded_extrema returns.
C19_RepaddingEnds ==
    /\ EachRoundWidens
    /\ (pc = "pad_loop") ~> (pc \in {"done", "env_interp"})

\* The loop padded twice before the padded set was returned.
C19_Witness ==
    /\ entry = "get_padded_extrema"
    /\ pc = "done"
    /\ batch.rounds >= 2

\* interp_envelope has ended with one of the outcomes the claim lists: None
\* for fewer than 2 extrema, ValueError, or an envelope of exactly N samples.
ListedOutcome ==
    \/ /\ pc = "done"
       /\ ret[1].kind = "None"
       /\ Len(Found(X, batch.mode).locs) < 2
    \/ /\ pc = "raised"
       /\ err = "ValueError"
    \/ /\ pc = "done"
       /\ ret[1].kind = "env"
       /\ Len(ret[1].env) = Len(X)

\* C20 (as claimed): interp_envelope has only three outcomes, for every
\* pad_width including 0: None when fewer than 2 extrema are found,
\* ValueError, or an envelope of exactly N samples.
C20_ThreeOutcomes ==
    (entry = "interp_envelope" /\ pc \in {"done", "raised"}) => ListedOutcome

\* C20 (amended): interp_envelope ends with None when fewer than 2 extrema
\* are found, with ValueError, with an envelope of exactly N samples, or,
\* only for pad_width 0 under 'splrep' with 2 or 3 extrema, with the
\* TypeError of interp.splrep; no envelope of another length is returned.
C20_FourOutcomes ==
    (entry = "interp_envelope" /\ pc \in {"done", "raised"})
        => \/ ListedOutcome
           \/ /\ pc = "raised"
              /\ err = "TypeError"
              /\ cfg.pad_width = 0
              /\ cfg.interp_method = "splrep"
              /\ Len(Found(X, batch.mode).locs) \in {2, 3}

\* An envelope was returned from extrema that were padded more than once.
C20_Witness ==
    /\ entry = "interp_envelope"
    /\ pc = "done"
    /\ ret[1].kind = "env"
    /\ batch.rounds >= 1

\* ====================================================================
\* Properties of mask_sift, sift_second_layer and get_next_imf, continued
\* ====================================================================
\* C21 (as claimed): mask_sift returns at most max_imfs IMF columns, and
\* with a user-supplied sequence of mask frequencies shorter than max_imfs
\* at most as many columns as the sequence has entries.
C21_MaskAtMostMaxImfs ==
    (entry = "mask_sift" /\ ret # None /\ cfg.max_imfs # None)
        => /\ Len(ret[1]) <= cfg.max_imfs[1]
           /\ batch.given.kind = "seq" => Len(ret[1]) <= Len(batch.given.v)

\* C22: for every order in which the workers of a batch finish, result i of
\* the batch belongs to input i. When every phase of get_next_imf_mask has
\* returned, result k was computed from the signal plus mask k, the mask
\* subtracted from it; when every noise sift of complete_ensemble_sift has
\* returned, the first IMF subtracted from noise buffer k was computed from
\* noise buffer k.
C22_ResultBelongsToInput ==
    /\ (entry = "mask_sift" /\ pc = "mask_phase"
            /\ batch.phase = batch.nphases)
          => \A k \in 1..batch.nphases :
                /\ batch.res[k].job = k - 1
                /\ batch.res[k].from = VAdd(sift_proto, batch.m[k])
    /\ (entry = "complete_ensemble_sift" /\ pc = "ces_job"
            /\ batch.stage = "noise" /\ batch.ii = batch.nensembles)
          => \A k \in 1..batch.nensembles :
                /\ batch.nres[k].job = k - 1
                /\ batch.nres[k].from = batch.noise[k]

\* The two phases of a masked layer returned, the second one first, from
\* inputs that differ.
C22_MaskCase ==
    /\ entry = "mask_sift"
    /\ pc = "mask_phase"
    /\ batch.phase = batch.nphases
    /\ batch.order = <<1, 0>>
    /\ batch.m[1] # batch.m[2]
    /\ batch.res[1].imf # batch.res[2].imf

\* The sifts of two noise buffers that differ returned, the second one
\* first, with first IMFs that differ.
C22_Witness ==
    /\ entry = "complete_ensemble_sift"
    /\ pc = "ces_job"
    /\ batch.stage = "noise"
    /\ batch.ii = batch.nensembles
    /\ batch.order = <<1, 0>>
    /\ batch.noise[1] # batch.noise[2]
    /\ batch.nres[1].imf # batch.nres[2].imf

\* C23 (as claimed, for the second-layer sifts and sift_args): no entry
\* point modifies the option dictionary the caller passes in: when the call
\* is over, by return or by exception, the caller's dictionary holds the
\* keys and values it held at the call.
C23_OptionDictsNotModified ==
    /\ (entry = "sift_second_layer" /\ batch.passed
            /\ pc \in {"done", "raised"})
          => batch.sift_args = batch.before
    /\ (entry = "mask_sift_second_layer" /\ batch.outer.passed
            /\ pc \in {"done", "raised"})
          => batch.outer.sift_args = batch.outer.before

\* C24 (as claimed): sift_second_layer applies the sift function exactly
\* once to each of the IA.shape[1] first-layer columns and stores each
\* result at that column's index of the output, for every accepted
\* sift_args (None, without max_imfs, or with any max_imfs): the call
\* returns, the columns sifted are 0 .. IA.shape[1]-1, one time each, and
\* row k of the output holds what the sift of column k returned.
C24_EachColumnSiftedOnce ==
    (entry = "sift_second_layer" /\ pc \in {"done", "raised"})
        => /\ pc = "done"
           /\ batch.sifted = [k \in 1..Len(batch.IA) |-> k - 1]
           /\ \A k \in 1..Len(batch.IA) :
                 \A j \in 1..Len(batch.results[k]) :
                    /\ j <= Len(ret[1][k])
                    /\ ret[1][k][j] = batch.results[k][j]

C26_SdMetricOverCandidate ==
    [][(/\ pc = "gni"
        /\ niters' = niters + 1
        /\ cfg.stop_method = "sd"
        /\ \E u \in Uppers : u.kind = "env"
        /\ \E l \in Lowers : l.kind = "env")
       => \E u \in Uppers, l \in Lowers :
             /\ u.kind = "env"
             /\ l.kind = "env"
             /\ LET avg == EnvMean(u.env, l.env)
                    x1 == VSub(proto_imf, avg)
                    num == SumSq(VSub(x1, proto_imf))
                    den == SumSq(x1)
                    below == /\ den > 0
                             /\ num * cfg.sd_thresh[2] < cfg.sd_thresh[1] * den
                IN IF below
                   THEN pc' = "gni_exit" /\ proto_imf' = x1
                   ELSE /\ pc' = "gni"
                        /\ proto_imf' =
                              VSub(proto_imf, VScale(cfg.env_step_size, avg))]_vars

\* C27 (as claimed): in 'flip' noise mode the result of _sift_with_noise is,
\* for every realization, the layer-by-layer average of sift(X + noise) and
\* sift(X - noise), and the call succeeds for every pair of IMF counts the
\* two sifts can return: when the second sift is over the worker returns,
\* and layer k of its result is the sum of layer k of the two sifts, to be
\* divided by 2.
C27_FlipAveragesLayerByLayer ==
    [][(/\ entry = "ensemble_sift"
        /\ batch.noise_mode = "flip"
        /\ batch.half = "minus"
        /\ pc = "sift"
        /\ ~continue_sift)
       => /\ pc' = "ens_job"
          /\ Len(imf) = Len(batch.first)
          /\ \E k \in 1..Len(batch'.res) :
                /\ batch'.res[k].job = Job
                /\ batch'.res[k].den = 2
                /\ batch'.res[k].cols =
                      [j \in 1..Len(imf) |-> VAdd(batch.first[j], imf[j])]]_vars

\* C28 (as claimed): in every layer that mask_sift attempts, the layer index
\* used to look up the mask frequency and, when mask_amp is array-valued,
\* the mask amplitude lies within the bounds of that schedule: no layer is
\* started for which a frequency or an amplitude is missing, for every
\* max_imfs and every schedule length (the mask frequencies a sequence, given
\* or derived).
C28_LayerIndexWithinSchedules ==
    (/\ entry = "mask_sift"
     /\ pc = "mask_loop"
     /\ continue_sift
     /\ batch.mask_freqs.kind = "seq")
        => /\ layer < Len(batch.mask_freqs.v)
           /\ batch.mask_amp.kind = "array" => layer < Len(batch.mask_amp.v)

\* C29 (as claimed): every call of get_next_imf terminates, by returning or
\* by raising, for every stop_method in {'sd', 'rilling', 'fixed'} and every
\* integer max_iters (0 and negative values included), whatever the
\* sequence of envelopes and criterion outcomes is.
C29_RefinementTerminates ==
    (entry = "get_next_imf" /\ pc = "gni"
        /\ cfg.stop_method \in {"sd", "rilling", "fixed"})
      ~> (pc \in {"done", "raised"})

\* The calls that do terminate: under 'sd' and 'rilling' with any max_iters,
\* and under 'fixed' with max_iters >= 1.
RefinementTerminatesUnlessFixedBelowOne ==
    (entry = "get_next_imf" /\ pc = "gni"
        /\ cfg.stop_method \in {"sd", "rilling", "fixed"}
        /\ ~(cfg.stop_method = "fixed" /\ cfg.max_iters < 1))
      ~> (pc \in {"done", "raised"})

\* C30: get_next_imf_mask reports that the decomposition may continue if and
\* only if at least one phase's refinement returned continue_flag True: each
\* phase's entry of the results holds the flag its get_next_imf call
\* returned, and the flag of the layer is clear exactly when all nphases of
\* them are (mask_sift then clears it as well at its cap and below its
\* threshold).
C30_MaskContinuesIffSomePhaseDoes ==
    [][/\ (pc = "gni_exit" /\ pc' = "mask_phase") =>
             /\ Len(batch'.res) = Len(batch.res) + 1
             /\ \E k \in 1..Len(batch'.res) :
                   /\ batch'.res[k].job = PhaseJob
                   /\ batch'.res[k].flag = continue_flag
       /\ (pc = "mask_phase" /\ pc' = "mask_loop") =>
             LET some == \E k \in 1..batch.nphases : batch.res[k].flag
                 stops == \/ MaskCapReached(batch.max_imfs, layer)
                          \/ BelowThresh(hist'.last_imf, cfg.sift_thresh)
             IN /\ Len(batch.res) = batch.nphases
                /\ continue_sift' => some
                /\ (some /\ ~stops) => continue_sift'
      ]_vars

\* A layer whose phases disagree has been collated and mask_sift goes on.
C30_Witness ==
    /\ pc = "mask_loop"
    /\ batch.kind = "mask"
    /\ layer >= 1
    /\ Len(batch.res) = batch.nphases
    /\ \E j, k \in 1..Len(batch.res) : batch.res[j].flag /\ ~batch.res[k].flag
    /\ continue_sift

\* Why the calls under 'fixed' with max_iters < 1 do not end: an iteration
\* that takes no step (env_step_size = 0) hands the next one the proto_imf it
\* was given, so the envelopes exist again, and niters, which is at least 1
\* and only grows, never equals max_iters.
FixedBelowOneRepeats ==
    [][(/\ entry = "get_next_imf"
        /\ pc = "gni"
        /\ cfg.stop_method = "fixed"
        /\ cfg.max_iters < 1
        /\ cfg.env_step_size = 0
        /\ niters' = niters + 1)
       => /\ pc' \in {"gni", "gni_exit"}
          /\ pc' = "gni" =>
                /\ proto_imf' = proto_imf
                /\ continue_flag' = continue_flag
                /\ \A n \in niters'..(niters' + MaxWork) :
                      ~fixed_stop(n, cfg.max_iters)
          /\ pc' = "gni_exit" => hist'.exit = "no_extrema" /\ niters' = 1
      ]_vars

====
